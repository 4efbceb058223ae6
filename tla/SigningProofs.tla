---------------------------- MODULE SigningProofs ----------------------------
(***************************************************************************)
(* What Signing promises, for any number of outputs, transactions, inputs  *)
(* and places in memory.                                                   *)
(***************************************************************************)
EXTENDS Signing, SequenceTheorems, TLAPS

-----------------------------------------------------------------------------
(***************************************************************************)
(* The inductive invariant.                                                *)
(***************************************************************************)
IsOutput(x) == x = [type |-> x.type, id |-> x.id, content |-> x.content]
IsSeq(s) == s \in Seq({s[i] : i \in DOMAIN s})
IsTransaction(r) ==
  /\ r = [inputs |-> r.inputs, inputs_commitment |-> r.inputs_commitment,
          outputs |-> r.outputs, unlock |-> r.unlock]
  /\ r.outputs \in Seq(Objects)

Places(t) == 1 .. Len(txs[t].outputs)

\* What the variables range over.
Shapes ==
  /\ ptr \in [Handles -> Objects \cup {nullptr}]
  /\ DOMAIN heap = Objects /\ heap = [q \in Objects |-> heap[q]]
  /\ origin = [h \in Handles |-> origin[h]]
  /\ commit = [h \in Handles |-> commit[h]]
  /\ given = [h \in Handles |-> given[h]]
  /\ IsSeq(txs)
  /\ \A t \in Transactions : IsTransaction(txs[t])

\* No two handles point to one object, and given says which places hold it.
Unshared ==
  /\ \A h, g \in Handles : ptr[h] # nullptr /\ ptr[h] = ptr[g] => h = g
  /\ \A h \in Handles : ptr[h] = nullptr => origin[h] = nullptr /\ given[h] = {}
  /\ \A h \in Handles : \A p \in given[h] :
       p = << p[1], p[2] >> /\ p[1] \in Transactions /\ p[2] \in Places(p[1])
  /\ \A h \in Handles : ptr[h] # nullptr =>
       \A t \in Transactions : \A i \in Places(t) :
         << t, i >> \in given[h] <=> ptr[h] = txs[t].outputs[i]

\* An object is the output it was taken for until that output was hashed.
Faithful(h) ==
  origin[h] # nullptr =>
    /\ IF commit[h] = nullptr THEN heap[ptr[h]] = Named(origin[h])
                              ELSE commit[h] = Hash(Named(origin[h]))
    /\ heap[ptr[h]].type = Named(origin[h]).type
    /\ heap[ptr[h]].id = ZeroId => Named(origin[h]).id = ZeroId

\* The signature of a transaction that may still be sent is of what would be sent.
SignatureCovers ==
  \A t \in Transactions : txs[t].unlock # nullptr /\ Open(t) => Covered(PayloadBytes(t))
CommitmentTrue == \A t \in Transactions : Commits(PayloadBytes(t))

\* What is in use is an output, and one that a chain allows.
Proper(x) == IsOutput(x) /\ BeginsChain(x)
ProperPayload(m) ==
  IsSeq(m.essence.outputs) /\ \A i \in DOMAIN m.essence.outputs : Proper(m.essence.outputs[i])
InUseProper ==
  /\ \A h \in Handles : ptr[h] # nullptr => Proper(heap[ptr[h]])
  /\ \A t \in Transactions : \A i \in Places(t) : Proper(heap[txs[t].outputs[i]])
  /\ \A m \in sent : ProperPayload(m)

SigningInv ==
  /\ Shapes
  /\ Unshared
  /\ \A h \in Handles : Faithful(h)
  /\ SignatureCovers
  /\ CommitmentTrue
  /\ InUseProper
  /\ SentValid
  /\ OriginsValid
-----------------------------------------------------------------------------
LEMMA SeqFacts ==
  ASSUME NEW s, IsSeq(s)
  PROVE  Len(s) \in Nat /\ DOMAIN s = 1 .. Len(s)
  BY DEF IsSeq

LEMMA AppendSeq ==
  ASSUME NEW s, IsSeq(s), NEW e
  PROVE  /\ IsSeq(Append(s, e))
         /\ Len(Append(s, e)) = Len(s) + 1
         /\ Append(s, e)[Len(s) + 1] = e
         /\ \A i \in 1 .. Len(s) : Append(s, e)[i] = s[i]
<1> DEFINE S == {s[i] : i \in DOMAIN s} \cup {e}
           a == Append(s, e)
<1>1. s \in Seq(S) BY DEF IsSeq
<1>2. a \in Seq(S) /\ Len(a) = Len(s) + 1 BY <1>1, AppendProperties
<1>3. a[Len(s) + 1] = e /\ \A i \in 1 .. Len(s) : a[i] = s[i] BY <1>1, AppendProperties
<1>4. IsSeq(a)
  <2> HIDE DEF S, a
  <2>1. DOMAIN a = 1 .. Len(a) /\ Len(a) \in Nat /\ a = [i \in 1 .. Len(a) |-> a[i]]
    BY <1>2
  <2>2. a \in [1 .. Len(a) -> {a[i] : i \in DOMAIN a}] BY <2>1
  <2> QED BY <2>1, <2>2 DEF IsSeq
<1> QED BY <1>2, <1>3, <1>4

LEMMA PlacesHold ==
  ASSUME SigningInv, NEW t \in Transactions, NEW i \in Places(t)
  PROVE  txs[t].outputs[i] \in Objects
<1>1. txs[t].outputs \in Seq(Objects) BY DEF SigningInv, Shapes, IsTransaction
<1> QED BY <1>1 DEF Places

LEMMA InitInv == Init => SigningInv
<1> SUFFICES ASSUME Init PROVE SigningInv
  OBVIOUS
<1> USE DEF Init
<1>1. Transactions = {} /\ IsSeq(txs)
  BY DEF Transactions, IsSeq
<1>2. Shapes BY <1>1 DEF Shapes
<1>3. Unshared BY <1>1 DEF Unshared
<1>4. \A h \in Handles : Faithful(h) BY DEF Faithful
<1>5. SignatureCovers /\ CommitmentTrue BY <1>1 DEF SignatureCovers, CommitmentTrue
<1>6. InUseProper BY <1>1 DEF InUseProper
<1>7. SentValid /\ OriginsValid BY DEF SentValid, OriginsValid
<1> QED BY <1>2, <1>3, <1>4, <1>5, <1>6, <1>7 DEF SigningInv

(***************************************************************************)
(* The bytes of a transaction are the same if it and its outputs are.      *)
(***************************************************************************)
LEMMA BytesKept ==
  ASSUME NEW t \in Transactions, txs'[t] = txs[t],
         \A i \in Places(t) : heap'[txs[t].outputs[i]] = heap[txs[t].outputs[i]]
  PROVE  PayloadBytes(t)' = PayloadBytes(t)
  BY DEF PayloadBytes, EssenceBytes, Places

(***************************************************************************)
(* A handle that points to a new object.                                   *)
(***************************************************************************)
LEMMA PointSeparate ==
  ASSUME SigningInv, NEW h \in Handles, NEW x, NEW o, NEW c, Point(h, x, o, c)
  PROVE  \E q \in Unused :
           /\ ptr' = [ptr EXCEPT ![h] = q] /\ DOMAIN heap' = Objects /\ heap' = [r \in Objects |-> heap'[r]]
           /\ heap'[q] = x
           /\ \A g \in Handles \ {h} : ptr[g] # nullptr => heap'[ptr[g]] = heap[ptr[g]]
           /\ \A t \in Transactions : \A i \in Places(t) : heap'[txs[t].outputs[i]] = heap[txs[t].outputs[i]]
<1> DEFINE q == CHOOSE q \in Unused : TRUE
<1>1. q \in Unused BY DEF Point
<1>2. /\ ptr' = [ptr EXCEPT ![h] = q] /\ txs' = txs
      /\ heap' = [r \in Objects |-> IF r = q THEN x ELSE IF r \in Unused' THEN nullptr ELSE heap[r]]
  BY DEF Point
<1> HIDE DEF q
<1>3. q \in Objects /\ heap'[q] = x BY <1>1, <1>2 DEF Unused
<1>4. ASSUME NEW g \in Handles \ {h}, ptr[g] # nullptr PROVE heap'[ptr[g]] = heap[ptr[g]]
  <2>1. ptr[g] \in Objects /\ ptr'[g] = ptr[g] /\ ptr[g] # q
    BY <1>1, <1>2, <1>4 DEF SigningInv, Shapes, Unused
  <2>2. ptr[g] \notin Unused' BY <2>1 DEF Unused
  <2> QED BY <1>2, <2>1, <2>2
<1>5. ASSUME NEW t \in Transactions, NEW i \in Places(t)
      PROVE  heap'[txs[t].outputs[i]] = heap[txs[t].outputs[i]]
  <2>1. txs[t].outputs[i] \in Objects BY PlacesHold
  <2>2. txs[t].outputs[i] # q BY <1>1 DEF Unused, Places
  <2>3. txs[t].outputs[i] \notin Unused' BY <1>2 DEF Unused, Places, Transactions
  <2> QED BY <1>2, <2>1, <2>2, <2>3
<1> QED BY <1>1, <1>2, <1>3, <1>4, <1>5

LEMMA PointInv ==
  ASSUME SigningInv, NEW h \in Handles, NEW x, NEW o, NEW c, Point(h, x, o, c), Proper(x),
         o # nullptr => /\ IF c = nullptr THEN x = Named(o) ELSE c = Hash(Named(o))
                        /\ x.type = Named(o).type
                        /\ x.id = ZeroId => Named(o).id = ZeroId
                        /\ NamesValid(o)
  PROVE  SigningInv'
<1>1. PICK q \in Unused :
        /\ ptr' = [ptr EXCEPT ![h] = q] /\ DOMAIN heap' = Objects /\ heap' = [r \in Objects |-> heap'[r]]
        /\ heap'[q] = x
        /\ \A g \in Handles \ {h} : ptr[g] # nullptr => heap'[ptr[g]] = heap[ptr[g]]
        /\ \A t \in Transactions : \A i \in Places(t) : heap'[txs[t].outputs[i]] = heap[txs[t].outputs[i]]
  BY PointSeparate
<1>2. /\ origin' = [origin EXCEPT ![h] = o] /\ commit' = [commit EXCEPT ![h] = c]
      /\ given' = [given EXCEPT ![h] = {}] /\ UNCHANGED << txs, learned, sent >>
  BY DEF Point
<1>3. Transactions' = Transactions /\ \A t \in Transactions : Places(t)' = Places(t)
  BY <1>2 DEF Transactions, Places
<1>4. q \in Objects /\ q # nullptr /\ (\A g \in Handles : ptr[g] # q)
      /\ \A t \in Transactions : \A i \in Places(t) : txs[t].outputs[i] # q
  BY NullAssumption DEF Unused, Places
<1>5. Shapes /\ Unshared /\ InUseProper /\ \A g \in Handles : Faithful(g)
  BY DEF SigningInv
<1>6. /\ ptr'[h] = q /\ origin'[h] = o /\ commit'[h] = c /\ given'[h] = {}
      /\ \A g \in Handles \ {h} : /\ ptr'[g] = ptr[g] /\ origin'[g] = origin[g]
                                  /\ commit'[g] = commit[g] /\ given'[g] = given[g]
  BY <1>1, <1>2, <1>5 DEF Shapes
<1>7. Shapes'
  BY <1>1, <1>2, <1>3, <1>4, <1>5 DEF Shapes
<1>8. Unshared'
  <2>1. \A g, k \in Handles : ptr'[g] # nullptr /\ ptr'[g] = ptr'[k] => g = k
    BY <1>4, <1>5, <1>6 DEF Unshared
  <2>2. \A g \in Handles : ptr'[g] = nullptr => origin'[g] = nullptr /\ given'[g] = {}
    BY <1>4, <1>5, <1>6 DEF Unshared
  <2>3. \A g \in Handles : \A p \in given'[g] :
          p = << p[1], p[2] >> /\ p[1] \in Transactions /\ p[2] \in Places(p[1])
    BY <1>5, <1>6 DEF Unshared
  <2>4. ASSUME NEW g \in Handles, ptr'[g] # nullptr, NEW t \in Transactions, NEW i \in Places(t)
        PROVE  << t, i >> \in given'[g] <=> ptr'[g] = txs[t].outputs[i]
    <3>1. CASE g = h BY <3>1, <1>4, <1>6
    <3>2. CASE g # h BY <3>2, <2>4, <1>5, <1>6 DEF Unshared
    <3> QED BY <3>1, <3>2
  <2> QED BY <2>1, <2>2, <2>3, <2>4, <1>2, <1>3 DEF Unshared
<1>9. ASSUME NEW g \in Handles PROVE Faithful(g)'
  <2>1. CASE g = h BY <2>1, <1>1, <1>6 DEF Faithful
  <2>2. CASE g # h
    <3>1. origin[g] # nullptr => ptr[g] # nullptr BY <1>5 DEF Unshared
    <3> QED BY <2>2, <3>1, <1>1, <1>5, <1>6 DEF Faithful
  <2> QED BY <2>1, <2>2
<1>10. \A t \in Transactions : PayloadBytes(t)' = PayloadBytes(t)
  BY <1>1, <1>2, BytesKept
<1>11. SignatureCovers' /\ CommitmentTrue'
  BY <1>2, <1>3, <1>10 DEF SigningInv, SignatureCovers, CommitmentTrue, Covered, Commits, Open
<1>12. InUseProper'
  <2>1. ASSUME NEW g \in Handles, ptr'[g] # nullptr PROVE Proper(heap'[ptr'[g]])
    BY <2>1, <1>1, <1>5, <1>6 DEF InUseProper
  <2>2. \A t \in Transactions : \A i \in Places(t) : Proper(heap'[txs[t].outputs[i]])
    BY <1>1, <1>5 DEF InUseProper
  <2> QED BY <2>1, <2>2, <1>2, <1>3, <1>5, ZenonT(60) DEF InUseProper, Proper, IsOutput, BeginsChain, ProperPayload, IsSeq
<1>13. SentValid' BY <1>2 DEF SigningInv, SentValid
<1>14. OriginsValid'
  BY <1>6 DEF SigningInv, OriginsValid
<1> QED BY <1>7, <1>8, <1>9, <1>11, <1>12, <1>13, <1>14 DEF SigningInv

(***************************************************************************)
(* What a node returns is a proper output, and its identifier is valid.    *)
(***************************************************************************)
LEMMA BookedProper ==
  ASSUME SigningInv, NEW o \in Booked
  PROVE  Proper(Named(o)) /\ NamesValid(o)
<1>1. CASE \E x \in Genesis : o = OutputId(Hash(GenesisPayload(x)), 1)
  <2>1. PICK x \in Genesis : o = OutputId(Hash(GenesisPayload(x)), 1) BY <1>1
  <2>2. o.transaction.blake2b = GenesisPayload(x) /\ o.index = 1 /\ Named(o) = x
    BY <2>1 DEF OutputId, Hash, GenesisPayload, Named
  <2>3. IsOutput(x) /\ x.id = ZeroId BY MadeAssumption DEF IsOutput
  <2>4. 1 \in DOMAIN GenesisPayload(x).essence.outputs BY DEF GenesisPayload
  <2> QED BY <2>2, <2>3, <2>4 DEF Proper, BeginsChain, NamesValid, IsGenesis
<1>2. CASE \E m \in sent : \E i \in 1 .. Len(m.essence.outputs) : o = OutputId(Hash(m), i)
  <2>0. PICK m \in sent : \E i \in 1 .. Len(m.essence.outputs) : o = OutputId(Hash(m), i) BY <1>2
  <2>1. PICK i \in 1 .. Len(m.essence.outputs) : o = OutputId(Hash(m), i) BY <2>0
  <2>2. o.transaction.blake2b = m /\ o.index = i /\ Named(o) = m.essence.outputs[i]
    BY <2>1 DEF OutputId, Hash, Named
  <2>3. ProperPayload(m) BY DEF SigningInv, InUseProper
  <2>4. i \in DOMAIN m.essence.outputs BY <2>3, SeqFacts DEF ProperPayload
  <2> QED BY <2>2, <2>3, <2>4 DEF SigningInv, ProperPayload, SentValid, NamesValid
<1> QED BY <1>1, <1>2 DEF Booked

(***************************************************************************)
(* A handle whose object the client changes in place.                      *)
(***************************************************************************)
LEMMA ChangeSeparate ==
  ASSUME SigningInv, NEW h \in Handles, MayChange(h), NEW y,
         heap' = [heap EXCEPT ![ptr[h]] = y]
  PROVE  /\ ptr[h] \in Objects /\ heap'[ptr[h]] = y
         /\ \A g \in Handles \ {h} : ptr[g] # nullptr => heap'[ptr[g]] = heap[ptr[g]]
         /\ \A t \in Transactions : Open(t) =>
              \A i \in Places(t) : heap'[txs[t].outputs[i]] = heap[txs[t].outputs[i]]
<1>1. ptr[h] \in Objects /\ DOMAIN heap = Objects
  BY DEF SigningInv, Shapes, MayChange
<1>2. ASSUME NEW g \in Handles \ {h}, ptr[g] # nullptr PROVE heap'[ptr[g]] = heap[ptr[g]]
  <2>1. ptr[g] # ptr[h] /\ ptr[g] \in Objects
    BY <1>2 DEF SigningInv, Unshared, Shapes
  <2> QED BY <1>1, <2>1
<1>3. ASSUME NEW t \in Transactions, Open(t), NEW i \in Places(t)
      PROVE  heap'[txs[t].outputs[i]] = heap[txs[t].outputs[i]]
  <2>1. << t, i >> \notin given[h]
    BY <1>3 DEF MayChange, Open
  <2>2. ptr[h] # txs[t].outputs[i]
    BY <1>1, <2>1, NullAssumption DEF SigningInv, Unshared
  <2> QED BY <1>1, <2>2, PlacesHold
<1> QED BY <1>1, <1>2, <1>3

LEMMA ChangeInv ==
  ASSUME SigningInv, NEW h \in Handles, MayChange(h), NEW y,
         heap' = [heap EXCEPT ![ptr[h]] = y],
         UNCHANGED << ptr, origin, commit, given, txs, learned, sent >>,
         Proper(y), y.type = heap[ptr[h]].type,
         y.id = ZeroId => heap[ptr[h]].id = ZeroId
  PROVE  SigningInv'
<1>1. /\ ptr[h] \in Objects /\ heap'[ptr[h]] = y
      /\ \A g \in Handles \ {h} : ptr[g] # nullptr => heap'[ptr[g]] = heap[ptr[g]]
      /\ \A t \in Transactions : Open(t) =>
           \A i \in Places(t) : heap'[txs[t].outputs[i]] = heap[txs[t].outputs[i]]
  BY ChangeSeparate
<1>2. Transactions' = Transactions /\ \A t \in Transactions : Places(t)' = Places(t)
  BY DEF Transactions, Places
<1>3. Shapes' BY <1>2 DEF SigningInv, Shapes
<1>4. Unshared' BY <1>2 DEF SigningInv, Unshared
<1>5. ASSUME NEW g \in Handles PROVE Faithful(g)'
  <2>1. Faithful(g) BY DEF SigningInv
  <2>2. CASE g = h BY <2>1, <2>2, <1>1 DEF Faithful, MayChange
  <2>3. CASE g # h
    <3>1. origin[g] # nullptr => ptr[g] # nullptr BY DEF SigningInv, Unshared
    <3> QED BY <2>1, <2>3, <3>1, <1>1 DEF Faithful
  <2> QED BY <2>2, <2>3
<1>6. SignatureCovers'
  <2>1. ASSUME NEW t \in Transactions, txs[t].unlock # nullptr, Open(t)
        PROVE  Covered(PayloadBytes(t)')
    <3>1. PayloadBytes(t)' = PayloadBytes(t) BY <1>1, <2>1, BytesKept
    <3> QED BY <2>1, <3>1 DEF SigningInv, SignatureCovers
  <2> QED BY <1>2, <2>1 DEF SignatureCovers, Open, Covered
<1>7. CommitmentTrue'
  <2>1. ASSUME NEW t \in Transactions PROVE Commits(PayloadBytes(t)')
    BY DEF SigningInv, CommitmentTrue, Commits, PayloadBytes, EssenceBytes
  <2> QED BY <1>2, <2>1 DEF CommitmentTrue, Commits
<1>8. InUseProper'
  <2>1. ASSUME NEW g \in Handles, ptr[g] # nullptr PROVE Proper(heap'[ptr[g]])
    BY <1>1, <2>1 DEF SigningInv, InUseProper
  <2>2. ASSUME NEW t \in Transactions, NEW i \in Places(t) PROVE Proper(heap'[txs[t].outputs[i]])
    <3>1. CASE txs[t].outputs[i] = ptr[h] BY <3>1, <1>1
    <3>2. CASE txs[t].outputs[i] # ptr[h]
      BY <3>2, <1>1, PlacesHold DEF SigningInv, InUseProper, Shapes
    <3> QED BY <3>1, <3>2
  <2>3. \A m \in sent : ProperPayload(m) BY DEF SigningInv, InUseProper
  <2>4. \A g \in Handles : ptr'[g] # nullptr => Proper(heap'[ptr'[g]]) BY <2>1
  <2>5. \A t \in Transactions' : \A i \in Places(t)' : Proper(heap'[txs'[t].outputs[i]])
    BY <2>2, <1>2
  <2> QED BY <2>3, <2>4, <2>5 DEF InUseProper, Proper, IsOutput, BeginsChain, ProperPayload, IsSeq
<1>9. SentValid' /\ OriginsValid' BY DEF SigningInv, SentValid, OriginsValid
<1> QED BY <1>3, <1>4, <1>5, <1>6, <1>7, <1>8, <1>9 DEF SigningInv

-----------------------------------------------------------------------------
(***************************************************************************)
(* Every action keeps the invariant.                                       *)
(***************************************************************************)
LEMMA CreateInv ==
  ASSUME SigningInv, NEW h \in Handles, Create(h)
  PROVE  SigningInv'
<1>1. PICK x \in Made : Point(h, x, nullptr, nullptr) BY DEF Create
<1>2. Proper(x) BY MadeAssumption DEF Proper, IsOutput, BeginsChain
<1> QED BY <1>1, <1>2, PointInv

LEMMA TakeInv ==
  ASSUME SigningInv, NEW h \in Handles, Take(h)
  PROVE  SigningInv'
<1>1. PICK o \in Booked : Point(h, Named(o), o, nullptr) BY DEF Take
<1>2. Proper(Named(o)) /\ NamesValid(o) BY BookedProper
<1> QED BY <1>1, <1>2, PointInv

LEMMA CloneToInv ==
  ASSUME SigningInv, NEW h \in Handles, NEW g \in Handles, CloneTo(h, g)
  PROVE  SigningInv'
<1>1. ptr[h] # nullptr /\ Point(g, heap[ptr[h]], origin[h], commit[h]) BY DEF CloneTo
<1>2. Proper(heap[ptr[h]]) BY <1>1 DEF SigningInv, InUseProper
<1>3. Faithful(h) /\ (origin[h] # nullptr => NamesValid(origin[h]))
  BY DEF SigningInv, OriginsValid
<1> QED BY <1>1, <1>2, <1>3, PointInv DEF Faithful

LEMMA SetIdInv ==
  ASSUME SigningInv, NEW h \in Handles, SetId(h)
  PROVE  SigningInv'
<1> DEFINE x == heap[ptr[h]]
           y == set_id(x, origin[h])
<1>1. ptr[h] \in Objects /\ Proper(x)
  BY DEF SigningInv, Shapes, InUseProper, SetId, MayChange
<1>2. x.type = Named(origin[h]).type /\ (x.id = ZeroId => Named(origin[h]).id = ZeroId)
  BY DEF SigningInv, Faithful, SetId
<1>3. heap' = [heap EXCEPT ![ptr[h]] = y]
  BY <1>1 DEF SetId, SigningInv, Shapes
<1>4. CASE y = x
  BY <1>1, <1>3, <1>4, ChangeInv DEF SetId, handleVars
<1>5. CASE y # x
  <2>1. x.id = ZeroId /\ y = [x EXCEPT !.id = Hash(origin[h])] BY <1>5 DEF set_id
  <2>2. IsOutput(y) /\ y.type = x.type /\ y.id = Hash(origin[h])
    BY <1>1, <2>1 DEF Proper, IsOutput
  <2>3. y.id.blake2b = origin[h] BY <2>2 DEF Hash
  <2>4. Proper(y) BY <1>2, <2>1, <2>2, <2>3 DEF Proper, BeginsChain
  <2> QED BY <1>3, <2>1, <2>2, <2>4, ChangeInv DEF SetId, handleVars
<1> QED BY <1>4, <1>5

LEMMA ChangeActionInv ==
  ASSUME SigningInv, NEW h \in Handles, Change(h)
  PROVE  SigningInv'
<1> DEFINE x == heap[ptr[h]]
<1>1. ptr[h] \in Objects /\ Proper(x)
  BY DEF SigningInv, Shapes, InUseProper, Change, MayChange
<1>2. PICK c \in Contents : heap' = [heap EXCEPT ![ptr[h]].content = c] BY DEF Change
<1> DEFINE y == [x EXCEPT !.content = c]
<1>3. heap' = [heap EXCEPT ![ptr[h]] = y] BY <1>1, <1>2 DEF SigningInv, Shapes
<1>4. IsOutput(y) /\ y.type = x.type /\ y.id = x.id BY <1>1 DEF Proper, IsOutput
<1>5. Proper(y) BY <1>1, <1>4 DEF Proper, BeginsChain
<1> HIDE DEF y
<1> QED BY <1>3, <1>4, <1>5, ChangeInv DEF Change, handleVars

LEMMA InUseKept ==
  ASSUME InUseProper, ptr' = ptr, heap' = heap, Transactions' = Transactions,
         \A t \in Transactions : txs'[t].outputs = txs[t].outputs,
         \A m \in sent' : m \in sent \/ ProperPayload(m)
  PROVE  InUseProper'
<1>1. \A m \in sent' : ProperPayload(m) BY DEF InUseProper
<1>2. \A g \in Handles : ptr'[g] # nullptr => Proper(heap'[ptr'[g]])
  BY DEF InUseProper
<1>3. \A t \in Transactions' : \A i \in Places(t)' : Proper(heap'[txs'[t].outputs[i]])
  BY DEF InUseProper, Places
<1> QED BY <1>1, <1>2, <1>3 DEF InUseProper, Proper, IsOutput, BeginsChain, ProperPayload, IsSeq

LEMMA CommitInv ==
  ASSUME SigningInv, NEW h \in Handles, Commit(h)
  PROVE  SigningInv'
<1>1. /\ origin[h] # nullptr /\ commit[h] = nullptr
      /\ commit' = [commit EXCEPT ![h] = Hash(heap[ptr[h]])]
      /\ UNCHANGED << ptr, heap, origin, given, txs, learned, sent >>
  BY DEF Commit
<1>2. Transactions' = Transactions /\ \A t \in Transactions : Places(t)' = Places(t)
  BY <1>1 DEF Transactions, Places
<1>3. Shapes' BY <1>1, <1>2 DEF SigningInv, Shapes
<1>4. Unshared' BY <1>1, <1>2 DEF SigningInv, Unshared
<1>5. ASSUME NEW g \in Handles PROVE Faithful(g)'
  <2>1. Faithful(g) BY DEF SigningInv
  <2>2. commit'[g] = IF g = h THEN Hash(heap[ptr[h]]) ELSE commit[g]
    BY <1>1 DEF SigningInv, Shapes
  <2> QED BY <1>1, <2>1, <2>2 DEF Faithful
<1>6. SignatureCovers' /\ CommitmentTrue'
  BY <1>1, <1>2 DEF SigningInv, SignatureCovers, CommitmentTrue, Covered, Commits, Open, PayloadBytes, EssenceBytes
<1>7. InUseProper' BY <1>1, <1>2, InUseKept DEF SigningInv
<1>8. SentValid' /\ OriginsValid' BY <1>1 DEF SigningInv, SentValid, OriginsValid
<1> QED BY <1>3, <1>4, <1>5, <1>6, <1>7, <1>8 DEF SigningInv

LEMMA SendInv ==
  ASSUME SigningInv, NEW t \in Transactions, Send(t)
  PROVE  SigningInv'
<1>1. /\ txs[t].unlock # nullptr /\ Open(t) /\ sent' = sent \cup {PayloadBytes(t)}
      /\ UNCHANGED << ptr, heap, origin, commit, given, txs, learned >>
  BY DisciplineAssumption DEF Send, Open, handleVars
<1>2. Transactions' = Transactions /\ \A u \in Transactions : Places(u)' = Places(u)
  BY <1>1 DEF Transactions, Places
<1>3. Shapes' BY <1>1, <1>2 DEF SigningInv, Shapes
<1>4. Unshared' BY <1>1, <1>2 DEF SigningInv, Unshared
<1>5. ASSUME NEW g \in Handles PROVE Faithful(g)'
  <2>1. Faithful(g) BY DEF SigningInv
  <2> QED BY <1>1, <2>1 DEF Faithful
<1>6. SignatureCovers' /\ CommitmentTrue'
  BY <1>1, <1>2, SMTT(40) DEF SigningInv, SignatureCovers, CommitmentTrue, Covered, Commits, Open, PayloadBytes, EssenceBytes
<1> DEFINE m == PayloadBytes(t)
<1>7. ProperPayload(m)
  <2>1. m.essence.outputs = [i \in Places(t) |-> heap[txs[t].outputs[i]]]
    BY DEF PayloadBytes, EssenceBytes, Places
  <2>2. Len(txs[t].outputs) \in Nat BY DEF SigningInv, Shapes, IsTransaction
  <2>3. DOMAIN m.essence.outputs = Places(t) BY <2>1
  <2>4. \A i \in Places(t) : Proper(m.essence.outputs[i]) BY <2>1 DEF SigningInv, InUseProper
  <2> HIDE DEF m
  <2>5. m.essence.outputs \in [1 .. Len(txs[t].outputs) -> {m.essence.outputs[i] : i \in DOMAIN m.essence.outputs}]
    BY <2>1, <2>3 DEF Places
  <2> QED BY <2>2, <2>3, <2>4, <2>5 DEF IsSeq, ProperPayload
<1>8. Covered(m) /\ Commits(m)
  BY <1>1 DEF SigningInv, SignatureCovers, CommitmentTrue
<1> HIDE DEF m
<1>9. InUseProper'
  <2>1. \A n \in sent' : n \in sent \/ n = m BY <1>1 DEF m
  <2> QED BY <1>1, <1>2, <1>7, <2>1, InUseKept DEF SigningInv
<1>10. SentValid' BY <1>1, <1>8 DEF SigningInv, SentValid, m
<1>11. OriginsValid' BY <1>1 DEF SigningInv, OriginsValid
<1> QED BY <1>3, <1>4, <1>5, <1>6, <1>9, <1>10, <1>11 DEF SigningInv

LEMMA SignInv ==
  ASSUME SigningInv, NEW t \in Transactions, Sign(t)
  PROVE  SigningInv'
<1>1. /\ txs[t].unlock = nullptr /\ txs' = [txs EXCEPT ![t].unlock = get_hash(t)]
      /\ UNCHANGED << ptr, heap, origin, commit, given, learned, sent >>
  BY DEF Sign, handleVars
<1>2. IsSeq(txs) /\ Len(txs) \in Nat /\ DOMAIN txs = Transactions
  BY SeqFacts DEF SigningInv, Shapes, Transactions
<1>3. \A u \in Transactions : IsTransaction(txs[u]) BY DEF SigningInv, Shapes
<1>4. Len(txs') = Len(txs) /\ IsSeq(txs')
  <2>1. DOMAIN txs' = DOMAIN txs BY <1>1
  <2>2. txs' \in [1 .. Len(txs) -> {txs'[u] : u \in DOMAIN txs'}] BY <1>1, <1>2, <2>1 DEF Transactions
  <2>3. txs' \in Seq({txs'[u] : u \in DOMAIN txs'}) /\ Len(txs') = Len(txs) BY <1>2, <2>1, <2>2 DEF Transactions
  <2> QED BY <2>3 DEF IsSeq
<1>5. \A u \in Transactions : /\ txs'[u].inputs = txs[u].inputs
                              /\ txs'[u].inputs_commitment = txs[u].inputs_commitment
                              /\ txs'[u].outputs = txs[u].outputs
                              /\ txs'[u].unlock = IF u = t THEN get_hash(t) ELSE txs[u].unlock
                              /\ IsTransaction(txs'[u])
  BY <1>1, <1>2, <1>3 DEF IsTransaction
<1>6. Transactions' = Transactions /\ \A u \in Transactions : Places(u)' = Places(u)
  BY <1>4, <1>5 DEF Transactions, Places
<1>7. Shapes' BY <1>1, <1>4, <1>5, <1>6 DEF SigningInv, Shapes
<1>8. Unshared' BY <1>1, <1>5, <1>6 DEF SigningInv, Unshared
<1>9. ASSUME NEW g \in Handles PROVE Faithful(g)'
  <2>1. Faithful(g) BY DEF SigningInv
  <2> QED BY <1>1, <2>1 DEF Faithful
<1>10. ASSUME NEW u \in Transactions PROVE EssenceBytes(u)' = EssenceBytes(u)
  <2>1. /\ txs'[u].inputs = txs[u].inputs /\ txs'[u].inputs_commitment = txs[u].inputs_commitment
        /\ txs'[u].outputs = txs[u].outputs
    BY <1>5
  <2> QED BY <2>1, <1>1 DEF EssenceBytes
<1>11. SignatureCovers'
  <2>1. ASSUME NEW u \in Transactions, txs'[u].unlock # nullptr, Open(u)
        PROVE  txs'[u].unlock = Hash(EssenceBytes(u))
    BY <1>5, <2>1 DEF SigningInv, SignatureCovers, Covered, PayloadBytes, get_hash
  <2> QED BY <1>1, <1>6, <1>10, <2>1 DEF SignatureCovers, Covered, PayloadBytes, Open
<1>12. CommitmentTrue'
  BY <1>6, <1>10 DEF SigningInv, CommitmentTrue, Commits, PayloadBytes
<1>13. InUseProper' BY <1>1, <1>5, <1>6, InUseKept DEF SigningInv
<1>14. SentValid' /\ OriginsValid' BY <1>1 DEF SigningInv, SentValid, OriginsValid
<1> QED BY <1>7, <1>8, <1>9, <1>11, <1>12, <1>13, <1>14 DEF SigningInv

LEMMA MakeInv ==
  ASSUME SigningInv, NEW ins \in Picks(MaxInputs), NEW outs \in Picks(MaxOutputs), Make(ins, outs)
  PROVE  SigningInv'
<1>0. PICK n : n = Len(txs) + 1 OBVIOUS
<1> DEFINE r == [inputs |-> [i \in DOMAIN ins |-> origin[ins[i]]],
                 inputs_commitment |-> get_inputs_Commitment([i \in DOMAIN ins |-> commit[ins[i]]]),
                 outputs |-> [i \in DOMAIN outs |-> ptr[outs[i]]], unlock |-> nullptr]
<1>1. /\ \A i \in DOMAIN ins : origin[ins[i]] # nullptr /\ commit[ins[i]] # nullptr
      /\ \A i \in DOMAIN outs : ptr[outs[i]] # nullptr
      /\ txs' = Append(txs, r)
      /\ given' = [h \in Handles |-> given[h] \cup {<< n, i >> : i \in {j \in DOMAIN outs : outs[j] = h}}]
      /\ UNCHANGED << ptr, heap, origin, commit, learned, sent >>
  BY <1>0 DEF Make
<1>2. /\ \E k \in Nat : DOMAIN outs = 1 .. k
      /\ \A i \in DOMAIN outs : outs[i] \in Handles
      /\ \A i, j \in DOMAIN outs : i # j => outs[i] # outs[j]
      /\ \A i \in DOMAIN ins : ins[i] \in Handles
  BY BoundsAssumption DEF Picks
<1>3. IsSeq(txs) /\ Len(txs) \in Nat BY SeqFacts DEF SigningInv, Shapes
<1> HIDE DEF r
<1>4. IsSeq(txs') /\ Len(txs') = n /\ txs'[n] = r /\ \A t \in Transactions : txs'[t] = txs[t]
  BY <1>0, <1>1, <1>3, AppendSeq DEF Transactions
<1>5. Transactions' = Transactions \cup {n} /\ n \notin Transactions
  BY <1>0, <1>3, <1>4 DEF Transactions
<1>6. IsTransaction(r) /\ Len(r.outputs) \in Nat /\ DOMAIN r.outputs = 1 .. Len(r.outputs)
      /\ r.outputs = [i \in DOMAIN outs |-> ptr[outs[i]]] /\ DOMAIN r.outputs = DOMAIN outs
  <2>1. r.outputs = [i \in DOMAIN outs |-> ptr[outs[i]]] BY DEF r
  <2>2. \A i \in DOMAIN outs : ptr[outs[i]] \in Objects
    BY <1>1, <1>2 DEF SigningInv, Shapes
  <2>3. PICK k \in Nat : DOMAIN outs = 1 .. k BY <1>2
  <2>4. r.outputs \in Seq(Objects) /\ Len(r.outputs) = k BY <2>1, <2>2, <2>3
  <2> QED BY <2>1, <2>3, <2>4 DEF IsTransaction, r
<1>7. Places(n)' = DOMAIN outs /\ \A t \in Transactions : Places(t)' = Places(t)
  BY <1>4, <1>6 DEF Places
<1>8. Shapes' BY <1>1, <1>4, <1>5, <1>6 DEF SigningInv, Shapes
<1>9. Unshared'
  <2>1. Unshared BY DEF SigningInv
  <2>2. ASSUME NEW h \in Handles
        PROVE  /\ \A t \in Transactions : \A i : << t, i >> \in given'[h] <=> << t, i >> \in given[h]
               /\ \A i : << n, i >> \in given'[h] <=> i \in DOMAIN outs /\ outs[i] = h
               /\ \A p \in given'[h] : p = << p[1], p[2] >> /\ p[1] \in Transactions'
                                     /\ (p[1] = n => p[2] \in DOMAIN outs)
                                     /\ (p[1] # n => p \in given[h])
    <3>1. given'[h] = given[h] \cup {<< n, i >> : i \in {j \in DOMAIN outs : outs[j] = h}} BY <1>1
    <3>2. \A p \in given[h] : p = << p[1], p[2] >> /\ p[1] \in Transactions BY <2>1 DEF Unshared
    <3>3. \A i : << n, i >> \notin given[h] BY <1>5, <3>2
    <3> QED BY <3>1, <3>2, <3>3, <1>5
  <2>3. \A h \in Handles : ptr[h] = nullptr => origin[h] = nullptr /\ given'[h] = {}
    <3>1. ASSUME NEW h \in Handles, ptr[h] = nullptr PROVE origin[h] = nullptr /\ given'[h] = {}
      <4>1. \A i \in DOMAIN outs : outs[i] # h BY <1>1, <3>1
      <4>2. given[h] = {} /\ origin[h] = nullptr BY <2>1, <3>1 DEF Unshared
      <4> QED BY <1>1, <4>1, <4>2
    <3> QED BY <3>1
  <2>4. \A h \in Handles : \A p \in given'[h] :
          p = << p[1], p[2] >> /\ p[1] \in Transactions' /\ p[2] \in Places(p[1])'
    BY <1>5, <1>7, <2>1, <2>2 DEF Unshared
  <2>5. ASSUME NEW h \in Handles, ptr[h] # nullptr, NEW t \in Transactions', NEW i \in Places(t)'
        PROVE  << t, i >> \in given'[h] <=> ptr[h] = txs'[t].outputs[i]
    <3>1. CASE t = n
      <4>1. i \in DOMAIN outs /\ txs'[t].outputs[i] = ptr[outs[i]] /\ outs[i] \in Handles
        BY <3>1, <1>2, <1>4, <1>6, <1>7
      <4>2. << t, i >> \in given'[h] <=> outs[i] = h BY <2>2, <3>1, <4>1
      <4> QED BY <2>1, <2>5, <4>1, <4>2 DEF Unshared
    <3>2. CASE t \in Transactions
      BY <3>2, <1>4, <1>7, <2>1, <2>2, <2>5 DEF Unshared
    <3> QED BY <3>1, <3>2, <1>5
  <2>6. \A h, g \in Handles : ptr'[h] # nullptr /\ ptr'[h] = ptr'[g] => h = g
    BY <1>1, <2>1 DEF Unshared
  <2>7. \A h \in Handles : ptr'[h] = nullptr => origin'[h] = nullptr /\ given'[h] = {} BY <1>1, <2>3
  <2>8. \A h \in Handles : ptr'[h] # nullptr =>
          \A t \in Transactions' : \A i \in Places(t)' :
            << t, i >> \in given'[h] <=> ptr'[h] = txs'[t].outputs[i]
    BY <1>1, <2>5
  <2> QED BY <2>4, <2>6, <2>7, <2>8 DEF Unshared
<1>10. ASSUME NEW g \in Handles PROVE Faithful(g)'
  <2>1. Faithful(g) BY DEF SigningInv
  <2> QED BY <1>1, <2>1 DEF Faithful
<1>11. \A t \in Transactions : PayloadBytes(t)' = PayloadBytes(t)
  BY <1>1, <1>4, BytesKept
<1>12. SignatureCovers'
  <2>1. txs'[n].unlock = nullptr BY <1>4 DEF r
  <2> QED BY <1>1, <1>4, <1>5, <1>11, <2>1 DEF SigningInv, SignatureCovers, Covered, Open
<1>13. CommitmentTrue'
  <2>1. \A i \in DOMAIN ins : commit[ins[i]] = Hash(Named(origin[ins[i]]))
    BY <1>1, <1>2 DEF SigningInv, Faithful
  <2>2. /\ r.inputs = [i \in DOMAIN ins |-> origin[ins[i]]]
        /\ r.inputs_commitment = Hash([i \in DOMAIN ins |-> commit[ins[i]]])
    BY DEF r, get_inputs_Commitment
  <2>3. r.inputs_commitment = Hash([i \in DOMAIN r.inputs |-> Hash(Named(r.inputs[i]))])
    <3>1. [i \in DOMAIN ins |-> commit[ins[i]]] = [i \in DOMAIN r.inputs |-> Hash(Named(r.inputs[i]))]
      BY <2>1, <2>2
    <3> QED BY <2>2, <3>1
  <2>4. PayloadBytes(n)'.essence.inputs = r.inputs
        /\ PayloadBytes(n)'.essence.inputs_commitment = r.inputs_commitment
    BY <1>4 DEF PayloadBytes, EssenceBytes
  <2>5. Commits(PayloadBytes(n)') BY <2>3, <2>4 DEF Commits
  <2> QED BY <1>5, <1>11, <2>5 DEF SigningInv, CommitmentTrue, Commits
<1>14. InUseProper'
  <2>1. InUseProper BY DEF SigningInv
  <2>2. \A m \in sent' : ProperPayload(m) BY <1>1, <2>1 DEF InUseProper
  <2>3. \A g \in Handles : ptr'[g] # nullptr => Proper(heap'[ptr'[g]]) BY <1>1, <2>1 DEF InUseProper
  <2>4. ASSUME NEW t \in Transactions', NEW i \in Places(t)' PROVE Proper(heap'[txs'[t].outputs[i]])
    <3>1. CASE t = n
      <4>1. i \in DOMAIN outs /\ txs'[t].outputs[i] = ptr[outs[i]] BY <3>1, <1>4, <1>6, <1>7
      <4> QED BY <4>1, <1>1, <1>2, <2>1 DEF InUseProper
    <3>2. CASE t \in Transactions
      BY <3>2, <1>1, <1>4, <1>7, <2>1 DEF InUseProper
    <3> QED BY <3>1, <3>2, <1>5
  <2> QED BY <2>2, <2>3, <2>4 DEF InUseProper, Proper, IsOutput, BeginsChain, ProperPayload, IsSeq
<1>15. SentValid' /\ OriginsValid' BY <1>1 DEF SigningInv, SentValid, OriginsValid
<1> QED BY <1>8, <1>9, <1>10, <1>12, <1>13, <1>14, <1>15 DEF SigningInv

LEMMA LearnInv ==
  ASSUME SigningInv, NEW t \in Transactions, Learn(t)
  PROVE  SigningInv'
<1> DEFINE named(h) == \E p \in given[h] : p[1] = t
           i(h) == (CHOOSE p \in given[h] : p[1] = t)[2]
<1>1. /\ txs[t].unlock # nullptr /\ Open(t) /\ learned \subseteq learned'
      /\ origin' = [h \in Handles |-> IF named(h) THEN OutputId(get_id(t), i(h)) ELSE origin[h]]
      /\ commit' = [h \in Handles |-> IF named(h) THEN nullptr ELSE commit[h]]
      /\ UNCHANGED << ptr, heap, given, txs, sent >>
  BY DisciplineAssumption DEF Learn, Open
<1>2. Transactions' = Transactions /\ \A u \in Transactions : Places(u)' = Places(u)
  BY <1>1 DEF Transactions, Places
<1>3. ASSUME NEW h \in Handles, named(h)
      PROVE  i(h) \in Places(t) /\ ptr[h] # nullptr /\ ptr[h] = txs[t].outputs[i(h)]
  <2>1. PICK p \in given[h] : p[1] = t /\ p[2] = i(h) BY <1>3
  <2>2. p = << t, i(h) >> /\ i(h) \in Places(t) BY <2>1 DEF SigningInv, Unshared
  <2>3. ptr[h] # nullptr BY <2>1 DEF SigningInv, Unshared
  <2> QED BY <2>1, <2>2, <2>3 DEF SigningInv, Unshared
<1>4. ASSUME NEW h \in Handles, named(h)
      PROVE  /\ Named(OutputId(get_id(t), i(h))) = heap[ptr[h]]
             /\ NamesValid(OutputId(get_id(t), i(h)))
  <2> DEFINE o == OutputId(get_id(t), i(h))
             m == PayloadBytes(t)
  <2>1. o.transaction.blake2b = m /\ o.index = i(h) BY DEF OutputId, get_id, Hash
  <2>2. m.essence.outputs = [j \in Places(t) |-> heap[txs[t].outputs[j]]]
    BY DEF PayloadBytes, EssenceBytes, Places
  <2>3. Covered(m) /\ Commits(m) BY <1>1 DEF SigningInv, SignatureCovers, CommitmentTrue
  <2> HIDE DEF o, m, i
  <2>4. Named(o) = heap[ptr[h]] BY <1>3, <1>4, <2>1, <2>2 DEF Named
  <2>5. NamesValid(o) BY <1>3, <1>4, <2>1, <2>2, <2>3 DEF NamesValid
  <2> QED BY <2>4, <2>5 DEF o
<1> HIDE DEF named, i
<1>5. Shapes' BY <1>1, <1>2 DEF SigningInv, Shapes
<1>6. Unshared'
  <2>1. Unshared BY DEF SigningInv
  <2>2. \A h \in Handles : ptr[h] = nullptr => origin'[h] = nullptr BY <1>1, <1>3, <2>1 DEF Unshared
  <2> QED BY <1>1, <1>2, <2>1, <2>2 DEF Unshared
<1>7. ASSUME NEW h \in Handles PROVE Faithful(h)'
  <2>1. CASE named(h)
    <3>1. origin'[h] = OutputId(get_id(t), i(h)) /\ commit'[h] = nullptr BY <1>1, <2>1
    <3>2. Named(origin'[h]) = heap'[ptr'[h]] BY <1>1, <1>4, <2>1, <3>1, SMTT(40)
    <3> QED BY <3>1, <3>2 DEF Faithful, Named
  <2>2. CASE ~named(h)
    <3>1. origin'[h] = origin[h] /\ commit'[h] = commit[h] BY <1>1, <2>2
    <3>2. Faithful(h) BY DEF SigningInv
    <3> QED BY <1>1, <3>1, <3>2 DEF Faithful, Named
  <2> QED BY <2>1, <2>2
<1>8. SignatureCovers' /\ CommitmentTrue'
  <2>1. \A u \in Transactions : PayloadBytes(u)' = PayloadBytes(u) BY <1>1, BytesKept
  <2>2. \A u \in Transactions : Open(u)' => Open(u) BY <1>1 DEF Open
  <2> QED BY <1>1, <1>2, <2>1, <2>2 DEF SigningInv, SignatureCovers, CommitmentTrue, Covered, Commits
<1>9. InUseProper' BY <1>1, <1>2, InUseKept DEF SigningInv
<1>10. SentValid' BY <1>1 DEF SigningInv, SentValid
<1>11. OriginsValid' BY <1>1, <1>4 DEF SigningInv, OriginsValid
<1> QED BY <1>5, <1>6, <1>7, <1>8, <1>9, <1>10, <1>11 DEF SigningInv

LEMMA NextInv == SigningInv /\ [Next]_vars => SigningInv'
<1> SUFFICES ASSUME SigningInv, [Next]_vars PROVE SigningInv'
  OBVIOUS
<1>1. CASE \E h \in Handles : Create(h) BY <1>1, CreateInv
<1>2. CASE \E h \in Handles : Take(h) BY <1>2, TakeInv
<1>3. CASE \E h \in Handles : Commit(h) BY <1>3, CommitInv
<1>4. CASE \E h \in Handles : SetId(h) BY <1>4, SetIdInv
<1>5. CASE \E h \in Handles : Change(h) BY <1>5, ChangeActionInv
<1>6. CASE \E h, g \in Handles : CloneTo(h, g) BY <1>6, CloneToInv
<1>7. CASE \E ins \in Picks(MaxInputs), outs \in Picks(MaxOutputs) : Make(ins, outs) BY <1>7, MakeInv
<1>8. CASE \E t \in Transactions : Sign(t) BY <1>8, SignInv
<1>9. CASE \E t \in Transactions : Send(t) BY <1>9, SendInv
<1>10. CASE \E t \in Transactions : Learn(t) BY <1>10, LearnInv
<1>11. CASE UNCHANGED vars
  <2>1. /\ ptr' = ptr /\ heap' = heap /\ origin' = origin /\ commit' = commit
        /\ given' = given /\ txs' = txs /\ learned' = learned /\ sent' = sent
    BY <1>11 DEF vars
  <2>2. Transactions' = Transactions /\ \A t \in Transactions : Places(t)' = Places(t)
    BY <2>1 DEF Transactions, Places
  <2>3. Shapes' BY <2>1, <2>2 DEF SigningInv, Shapes
  <2>4. Unshared' BY <2>1, <2>2 DEF SigningInv, Unshared
  <2>5. \A h \in Handles : Faithful(h)' BY <2>1 DEF SigningInv, Faithful
  <2>6. SignatureCovers' /\ CommitmentTrue'
    BY <2>1, <2>2, ZenonT(60) DEF SigningInv, SignatureCovers, CommitmentTrue, Covered, Commits, Open, PayloadBytes, EssenceBytes
  <2>7. InUseProper' BY <2>1, <2>2, InUseKept DEF SigningInv
  <2>8. SentValid' /\ OriginsValid' BY <2>1 DEF SigningInv, SentValid, OriginsValid
  <2> QED BY <2>3, <2>4, <2>5, <2>6, <2>7, <2>8 DEF SigningInv
<1> QED BY <1>1, <1>2, <1>3, <1>4, <1>5, <1>6, <1>7, <1>8, <1>9, <1>10, <1>11 DEF Next

-----------------------------------------------------------------------------
(***************************************************************************)
(* The invariant holds of every behaviour.                                 *)
(***************************************************************************)
THEOREM SigningInvariance == Spec => []SigningInv
  BY InitInv, NextInv, PTL DEF Spec

(***************************************************************************)
(* Every payload sent is signed over the bytes it is sent with and commits *)
(* to the outputs it spends as they were booked.                           *)
(***************************************************************************)
THEOREM SentIsValid == Spec => []SentValid
<1>1. SigningInv => SentValid BY DEF SigningInv
<1> QED BY <1>1, SigningInvariance, PTL

(***************************************************************************)
(* Every identifier the client computed names an output of a payload that  *)
(* a node can have booked.                                                 *)
(***************************************************************************)
THEOREM OriginsAreValid == Spec => []OriginsValid
<1>1. SigningInv => OriginsValid BY DEF SigningInv
<1> QED BY <1>1, SigningInvariance, PTL

(***************************************************************************)
(* The identifier of an NFT or alias is the hash of the identifier of an   *)
(* output of its class whose own was still zero.                           *)
(***************************************************************************)
THEOREM IdsBegin == Spec => []IdsBeginChains
<1>1. SigningInv => IdsBeginChains
  BY DEF SigningInv, InUseProper, ProperPayload, Proper, IdsBeginChains
<1> QED BY <1>1, SigningInvariance, PTL

(***************************************************************************)
(* No step changes the bytes of a transaction that may still be sent, but  *)
(* for its signature.                                                      *)
(***************************************************************************)
LEMMA EssenceKept ==
  ASSUME SigningInv, [Next]_vars, NEW t \in Transactions, Open(t)
  PROVE  /\ EssenceBytes(t)' = EssenceBytes(t)
         /\ t \in Transactions'
         /\ txs'[t].unlock = txs[t].unlock \/ Sign(t)
<1> DEFINE Kept == /\ EssenceBytes(t)' = EssenceBytes(t)
                   /\ t \in Transactions'
                   /\ txs'[t].unlock = txs[t].unlock
<1>1. ASSUME txs' = txs, \A i \in Places(t) : heap'[txs[t].outputs[i]] = heap[txs[t].outputs[i]]
      PROVE  Kept
  BY <1>1 DEF EssenceBytes, Places, Transactions
<1>2. ASSUME NEW h \in Handles, NEW x, NEW o, NEW c, Point(h, x, o, c) PROVE Kept
  BY <1>1, <1>2, PointSeparate DEF Point
<1>3. ASSUME NEW h \in Handles, MayChange(h), NEW y, heap' = [heap EXCEPT ![ptr[h]] = y], txs' = txs
      PROVE  Kept
  BY <1>1, <1>3, ChangeSeparate
<1>4. ASSUME UNCHANGED << heap, txs >> PROVE Kept
  BY <1>1, <1>4
<1>5. CASE \E h \in Handles : Create(h) \/ Take(h) BY <1>2, <1>5 DEF Create, Take
<1>6. CASE \E h, g \in Handles : CloneTo(h, g) BY <1>2, <1>6 DEF CloneTo
<1>7. CASE \E h \in Handles : SetId(h)
  <2>1. PICK h \in Handles : SetId(h) BY <1>7
  <2>2. MayChange(h) /\ heap' = [heap EXCEPT ![ptr[h]] = set_id(heap[ptr[h]], origin[h])] /\ txs' = txs
    BY <2>1 DEF SetId, MayChange, SigningInv, Shapes
  <2> QED BY <1>3, <2>2
<1>8. CASE \E h \in Handles : Change(h)
  <2>1. PICK h \in Handles : Change(h) BY <1>8
  <2>2. PICK c \in Contents : heap' = [heap EXCEPT ![ptr[h]].content = c] BY <2>1 DEF Change
  <2>3. MayChange(h) /\ heap' = [heap EXCEPT ![ptr[h]] = [heap[ptr[h]] EXCEPT !.content = c]] /\ txs' = txs
    BY <2>1, <2>2 DEF Change, MayChange, SigningInv, Shapes
  <2> QED BY <1>3, <2>3
<1>9. CASE \E h \in Handles : Commit(h) BY <1>4, <1>9 DEF Commit
<1>10. CASE \E ins \in Picks(MaxInputs), outs \in Picks(MaxOutputs) : Make(ins, outs)
  <2>1. PICK r : txs' = Append(txs, r) /\ heap' = heap BY <1>10 DEF Make
  <2>2. txs'[t] = txs[t] /\ t \in Transactions'
    BY <2>1, AppendSeq, SeqFacts DEF SigningInv, Shapes, Transactions
  <2> QED BY <2>1, <2>2 DEF EssenceBytes
<1>11. CASE \E u \in Transactions : Sign(u)
  <2>1. PICK u \in Transactions : Sign(u) BY <1>11
  <2>2. /\ txs' = [txs EXCEPT ![u].unlock = get_hash(u)] /\ heap' = heap
        /\ DOMAIN txs = Transactions /\ IsTransaction(txs[t]) /\ IsSeq(txs)
    BY <2>1, SeqFacts DEF Sign, SigningInv, Shapes, Transactions
  <2>3. /\ txs'[t].inputs = txs[t].inputs /\ txs'[t].inputs_commitment = txs[t].inputs_commitment
        /\ txs'[t].outputs = txs[t].outputs /\ (t # u => txs'[t] = txs[t])
    BY <2>2 DEF IsTransaction
  <2>4. t \in Transactions' BY <2>1, SignInv, SeqFacts, <2>2 DEF Transactions, SigningInv, Shapes
  <2> QED BY <2>1, <2>2, <2>3, <2>4 DEF EssenceBytes
<1>12. CASE \E u \in Transactions : Send(u) \/ Learn(u) BY <1>4, <1>12 DEF Send, Learn
<1>13. CASE UNCHANGED vars BY <1>4, <1>13 DEF vars
<1> QED BY <1>5, <1>6, <1>7, <1>8, <1>9, <1>10, <1>11, <1>12, <1>13 DEF Next

(***************************************************************************)
(* What was signed stays as it was as long as it may be sent.              *)
(***************************************************************************)
THEOREM SignedStays == Spec => SignedFrozen
<1>1. SigningInv /\ [Next]_vars =>
        [\A t \in Transactions : (txs[t].unlock # nullptr /\ Open(t)) => PayloadBytes(t)' = PayloadBytes(t)]_vars
  <2> SUFFICES ASSUME SigningInv, [Next]_vars, NEW t \in Transactions, txs[t].unlock # nullptr, Open(t)
               PROVE  PayloadBytes(t)' = PayloadBytes(t)
    OBVIOUS
  <2>1. EssenceBytes(t)' = EssenceBytes(t) /\ txs'[t].unlock = txs[t].unlock BY EssenceKept DEF Sign
  <2> QED BY <2>1 DEF PayloadBytes
<1> QED BY <1>1, SigningInvariance, PTL DEF Spec, SignedFrozen

-----------------------------------------------------------------------------
(***************************************************************************)
(* A client that clones may take its transactions for values: Signing      *)
(* implements Transfers, whatever it does with its outputs.                *)
(***************************************************************************)
Book == [t \in Transactions |-> PayloadBytes(t)]

LEMMA BookIsSeq ==
  ASSUME Len(txs) \in Nat
  PROVE  Len(Book) = Len(txs) /\ DOMAIN Book = Transactions
<1>1. Book \in Seq({PayloadBytes(t) : t \in Transactions}) BY DEF Book, Transactions
<1> QED BY <1>1 DEF Book, Transactions

LEMMA StepIsTransfer ==
  ASSUME Discipline = "clone", SigningInv, SigningInv', [Next]_vars
  PROVE  [T!Next]_<< Book, sent >>
<1>1. \A t \in Transactions : Open(t) BY DEF Open
<1>2. Len(txs) \in Nat /\ Len(txs') \in Nat BY SeqFacts DEF SigningInv, Shapes
<1>3. /\ Len(Book) = Len(txs) /\ DOMAIN Book = Transactions
      /\ Len(Book)' = Len(txs') /\ DOMAIN Book' = Transactions'
  BY <1>2, BookIsSeq DEF Book, Transactions
<1>4. \A t \in Transactions : Book[t] = PayloadBytes(t) /\ Book[t].unlock = txs[t].unlock
  BY DEF Book, PayloadBytes
<1>5. \A t \in Transactions' : Book'[t] = PayloadBytes(t)' /\ Book'[t].unlock = txs'[t].unlock
  BY DEF Book, PayloadBytes
<1>6. \A t \in Transactions : EssenceBytes(t)' = EssenceBytes(t)
  BY <1>1, EssenceKept
<1>7. CASE txs' = txs
  <2>1. \A t \in Transactions : PayloadBytes(t)' = PayloadBytes(t) BY <1>6, <1>7 DEF PayloadBytes
  <2>2. Transactions' = Transactions BY <1>7 DEF Transactions
  <2>3. Book' = Book BY <2>1, <2>2 DEF Book
  <2>4. CASE sent' = sent BY <2>3, <2>4
  <2>5. CASE sent' # sent
    <3>1. PICK t \in Transactions : Send(t)
      BY <1>7, <2>5 DEF Next, vars, handleVars, Create, Take, CloneTo, Point, Commit, SetId, Change, Make, Sign, Learn
    <3>2. Book[t] = PayloadBytes(t) /\ Book[t].unlock = txs[t].unlock /\ t \in 1 .. Len(Book)
      BY <1>3, <1>4 DEF PayloadBytes, Transactions
    <3>3. T!Send(t) BY <2>3, <3>1, <3>2 DEF Send, T!Send, Book
    <3> QED BY <3>2, <3>3 DEF T!Next, Book
  <2> QED BY <2>4, <2>5
<1>8. CASE \E ins \in Picks(MaxInputs), outs \in Picks(MaxOutputs) : Make(ins, outs)
  <2>1. PICK r : txs' = Append(txs, r) /\ r.unlock = nullptr /\ heap' = heap /\ sent' = sent
    BY <1>8 DEF Make
  <2>2. /\ Len(txs') = Len(txs) + 1 /\ txs'[Len(txs')] = r
        /\ \A t \in Transactions : txs'[t] = txs[t] /\ t \in Transactions'
    BY <1>2, <2>1, AppendSeq DEF SigningInv, Shapes, Transactions
  <2>3. \A t \in 1 .. Len(Book) : Book'[t] = Book[t]
    <3>1. \A t \in Transactions : PayloadBytes(t)' = PayloadBytes(t) BY <1>6, <2>2 DEF PayloadBytes
    <3> QED BY <1>3, <1>4, <1>5, <2>2, <3>1 DEF Transactions
  <2>4. Len(txs') \in Transactions' BY <1>2, <2>2 DEF Transactions
  <2>5. Book'[Len(txs')].unlock = nullptr BY <1>5, <2>1, <2>2, <2>4
  <2>6. T!Make BY <1>3, <2>1, <2>2, <2>3, <2>5 DEF T!Make, Book
  <2> QED BY <2>6 DEF T!Next
<1>9. CASE \E t \in Transactions : Sign(t)
  <2>1. PICK u \in Transactions : Sign(u) BY <1>9
  <2>2. /\ txs[u].unlock = nullptr /\ txs' = [txs EXCEPT ![u].unlock = get_hash(u)]
        /\ heap' = heap /\ sent' = sent /\ DOMAIN txs = Transactions
        /\ \A t \in Transactions : IsTransaction(txs[t])
    BY <2>1, SeqFacts DEF Sign, SigningInv, Shapes, Transactions
  <2>3. \A t \in Transactions : txs'[t].unlock = IF t = u THEN Hash(EssenceBytes(t)) ELSE txs[t].unlock
    BY <2>2 DEF IsTransaction, get_hash
  <2>4. Transactions' = Transactions
    <3>1. DOMAIN txs' = DOMAIN txs BY <2>2
    <3>2. DOMAIN txs' = 1 .. Len(txs') BY SeqFacts DEF SigningInv, Shapes
    <3> QED BY <2>2, <3>1, <3>2 DEF Transactions
  <2>5. \A t \in Transactions : PayloadBytes(t)' =
          IF t = u THEN [PayloadBytes(t) EXCEPT !.unlock = Hash(PayloadBytes(t).essence)] ELSE PayloadBytes(t)
    BY <1>6, <2>3 DEF PayloadBytes
  <2>6. Book' = [Book EXCEPT ![u].unlock = T!Hash(Book[u].essence)]
    BY <2>4, <2>5 DEF Book, Hash, T!Hash
  <2>7. Book[u].unlock = nullptr BY <1>4, <2>2
  <2>8. T!Sign(u) BY <2>2, <2>6, <2>7 DEF T!Sign, Book
  <2>9. u \in 1 .. Len(Book) BY <1>3 DEF Transactions
  <2> QED BY <2>8, <2>9 DEF T!Next, Book
<1>10. CASE txs' # txs
  <2>1. \/ \E ins \in Picks(MaxInputs), outs \in Picks(MaxOutputs) : Make(ins, outs)
        \/ \E t \in Transactions : Sign(t)
    BY <1>10 DEF Next, vars, handleVars, Create, Take, CloneTo, Point, Commit, SetId, Change, Send, Learn
  <2> QED BY <2>1, <1>8, <1>9
<1> QED BY <1>7, <1>10

(***************************************************************************)
(* A client that clones implements Transfers: nothing it does with the     *)
(* outputs it shares with its essences can be seen in what it sends        *)
(* (Essence::get_hash and serialize, which read them anew on each call).   *)
(***************************************************************************)
THEOREM SigningImplementsTransfers == Discipline = "clone" => (Spec => TransactionsAreValues)
<1> SUFFICES ASSUME Discipline = "clone" PROVE Spec => TransactionsAreValues
  OBVIOUS
<1>1. Init => T!Init
  <2> SUFFICES ASSUME Init PROVE T!Init
    OBVIOUS
  <2>1. Transactions = {} /\ sent = {} BY DEF Init, Transactions
  <2>2. Book = << >> BY <2>1 DEF Book
  <2> QED BY <2>1, <2>2 DEF T!Init, Book
<1>2. SigningInv /\ SigningInv' /\ [Next]_vars => [T!Next]_<< Book, sent >>
  BY StepIsTransfer
<1> QED BY <1>1, <1>2, SigningInvariance, PTL DEF Spec, TransactionsAreValues, T!Spec, Book
=============================================================================
