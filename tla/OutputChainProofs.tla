-------------------------- MODULE OutputChainProofs --------------------------
(***************************************************************************)
(* The identity of chains, proved for any number of pointers, outputs,     *)
(* addresses, features and tokens.                                         *)
(*                                                                         *)
(* None of the invariants is inductive alone: what is published depends on *)
(* what a pointer holds, and what a pointer holds on what was published.   *)
(* ChainInv joins TypeOK with both sides: Held says of each object how it  *)
(* continues the output it was taken from, at every stage of the client's  *)
(* work; LedgerOK is what is wanted of the ledger.                         *)
(***************************************************************************)
EXTENDS OutputChain, TLAPS

\* x is, or can become, the successor of the ledger's output o.
Continues(x, o) ==
  /\ x.type = ledger[o].output.type
  /\ x.immutable_features_ = ledger[o].output.immutable_features_
  /\ x.type \in {Alias, NFT} =>
       IF x.id = ZeroId THEN ledger[o].root = o ELSE x.id = HashOf(ledger[o].root)
  /\ x.type = Foundry => get_id(x) = get_id(ledger[o].output)

\* What is known of an object x taken from o, at stage s, to which a was added.
HeldAs(x, o, s, a) ==
  /\ x.type = Foundry => x.unlock_conditions_ # << >>
  /\ s = "new" => o = 0 /\ x.id = ZeroId
  /\ s # "new" => o # 0 /\ Continues(x, o)
  /\ s = "consumed" => Content(x) = Nothing
  /\ s = "filled" => Content(x) = a
Held ==
  \A h \in Handles : heap[h] # nullptr => HeldAs(heap[h], taken[h], stage[h], added[h])

FoundriesOK ==
  \A o \in Published : ledger[o].output.type = Foundry =>
    /\ ledger[o].output.unlock_conditions_ # << >>
    /\ Successor(o) => get_id(ledger[o].output) = get_id(Pred(o).output)
LedgerOK ==
  /\ Len(ledger) <= MaxOutputs
  /\ IdIsHashOfCreator
  /\ FoundriesOK
  /\ SuccessorCarries

ChainInv == TypeOK /\ Held /\ LedgerOK

-----------------------------------------------------------------------------
(***************************************************************************)
(* The methods keep what makes an object the successor of o.               *)
(***************************************************************************)
LEMMA SetIdContinues ==
  ASSUME TypeOK, LedgerOK, NEW x \in Output, NEW o \in Published, Continues(x, o)
  PROVE  /\ set_id(x, o) \in Output
         /\ Continues(set_id(x, o), o)
         /\ Content(set_id(x, o)) = Content(x)
         /\ set_id(x, o).type = x.type
         /\ set_id(x, o).unlock_conditions_ = x.unlock_conditions_
<1>1. HashOf(o) \in Ids /\ HashOf(o) # ZeroId
  BY IdAssumption, BoundAssumption DEF Published, LedgerOK, TypeOK
<1>2. CASE x.type \in {Alias, NFT} /\ x.id = ZeroId
  <2>1. set_id(x, o) = [x EXCEPT !.id = HashOf(o)]
    BY <1>2 DEF set_id
  <2>2. x.type # Foundry
    BY <1>2 DEF Alias, NFT, Foundry
  <2> QED
    BY <1>1, <1>2, <2>1, <2>2 DEF Output, Continues, Content
<1>3. CASE ~ (x.type \in {Alias, NFT} /\ x.id = ZeroId)
  BY <1>3 DEF set_id
<1> QED
  BY <1>2, <1>3

LEMMA ConsumeContinues ==
  ASSUME NEW x \in Output, NEW o, Continues(x, o),
         x.type = Foundry => x.unlock_conditions_ # << >>
  PROVE  /\ consume(x) \in Output
         /\ Continues(consume(x), o)
         /\ Content(consume(x)) = Nothing
         /\ consume(x).type = Foundry => consume(x).unlock_conditions_ # << >>
<1> DEFINE y == consume(x)
<1>0. << >> \in Seq(Address)
  OBVIOUS
<1>1. y \in Output
  <2>1. CASE x.type = Foundry
    <3>1. y = [x EXCEPT !.features_ = {}, !.native_tokens_ = {}]
      BY <2>1 DEF consume, Output
    <3> QED
      BY <3>1 DEF Output
  <2>2. CASE x.type # Foundry
    <3>1. y = [x EXCEPT !.features_ = {}, !.native_tokens_ = {}, !.unlock_conditions_ = << >>]
      BY <2>2 DEF consume, Output
    <3> QED
      BY <1>0, <3>1 DEF Output
  <2> QED
    BY <2>1, <2>2
<1>2. /\ y.type = x.type /\ y.id = x.id /\ y.immutable_features_ = x.immutable_features_
      /\ y.serial_number_ = x.serial_number_ /\ y.features_ = {} /\ y.native_tokens_ = {}
      /\ x.type = Foundry => y.unlock_conditions_ = x.unlock_conditions_
  BY DEF consume, Output
<1>3. x.type = Foundry => get_id(y) = get_id(x)
  BY <1>2 DEF get_id, Foundry, Alias, NFT
<1> QED
  BY <1>1, <1>2, <1>3 DEF Continues, Content, Nothing

(***************************************************************************)
(* A step that changes what one pointer holds, and nothing of the ledger.  *)
(***************************************************************************)
LEMMA HoldKeeps ==
  ASSUME ChainInv, UNCHANGED ledgerVars, NEW h \in Handles, NEW x \in Output,
         NEW o \in 0 .. Len(ledger), NEW s \in Stages, NEW a \in Additions,
         Hold(h, x, o, s, a), HeldAs(x, o, s, a)
  PROVE  ChainInv'
<1> USE DEF ChainInv, ledgerVars
<1>1. TypeOK'
  BY DEF TypeOK, Hold, Published
<1>2. Held'
  <2> SUFFICES ASSUME NEW g \in Handles, heap'[g] # nullptr
               PROVE  HeldAs(heap[g], taken[g], stage[g], added[g])'
    BY DEF Held
  <2>1. CASE g = h
    BY <2>1 DEF Hold, TypeOK, HeldAs, Continues
  <2>2. CASE g # h
    BY <2>2 DEF Hold, TypeOK, Held, HeldAs, Continues
  <2> QED
    BY <2>1, <2>2
<1>3. LedgerOK'
  BY DEF LedgerOK, IdIsHashOfCreator, FoundriesOK, SuccessorCarries, Published, Successor, Pred
<1> QED
  BY <1>1, <1>2, <1>3
-----------------------------------------------------------------------------
(***************************************************************************)
(* Every action keeps ChainInv.                                            *)
(***************************************************************************)
LEMMA InitInv == Init => ChainInv
<1> SUFFICES ASSUME Init PROVE ChainInv
  OBVIOUS
<1>1. TypeOK
  BY DEF Init, TypeOK, Stages, Additions, Nothing, Published
<1>2. Held /\ LedgerOK
  BY BoundAssumption DEF Init, Held, LedgerOK, IdIsHashOfCreator, FoundriesOK, SuccessorCarries,
                         Published
<1> QED
  BY <1>1, <1>2 DEF ChainInv

LEMMA CreateInv ==
  ASSUME ChainInv, NEW h \in Handles, Create(h)
  PROVE  ChainInv'
<1>1. PICK x \in Made : Hold(h, x, 0, "new", Content(x))
  BY DEF Create
<1>2. x \in Output /\ x.id = ZeroId /\ x.unlock_conditions_ # << >>
  BY MadeAssumption
<1>3. Content(x) \in Additions
  BY <1>2 DEF Content, Additions, Output
<1>4. HeldAs(x, 0, "new", Content(x))
  BY <1>2 DEF HeldAs
<1>5. 0 \in 0 .. Len(ledger)
  BY DEF ChainInv, TypeOK
<1> QED
  BY <1>1, <1>2, <1>3, <1>4, <1>5, HoldKeeps DEF Create, Stages

LEMMA TakeInv ==
  ASSUME ChainInv, NEW h \in Handles, NEW o \in Published, Take(h, o)
  PROVE  ChainInv'
<1> DEFINE x == ledger[o].output
<1>1. /\ o \in 1 .. Len(ledger) /\ Len(ledger) \in Nat /\ ledger[o] \in Entry
      /\ ledger[o].root \in 1 .. o
  BY DEF ChainInv, TypeOK, Published
<1>2. x \in Output
  BY <1>1 DEF Entry
<1>3. Continues(x, o)
  <2>1. HashOf(ledger[o].root) # ZeroId
    BY <1>1, IdAssumption, BoundAssumption DEF ChainInv, LedgerOK
  <2> QED
    BY <2>1 DEF ChainInv, LedgerOK, IdIsHashOfCreator, Continues
<1>4. HeldAs(x, o, "taken", Nothing)
  BY <1>1, <1>3 DEF HeldAs, ChainInv, LedgerOK, FoundriesOK
<1>5. Nothing \in Additions /\ o \in 0 .. Len(ledger)
  BY <1>1 DEF Nothing, Additions
<1> QED
  BY <1>2, <1>4, <1>5, HoldKeeps DEF Take, Stages

LEMMA SetIdInv ==
  ASSUME ChainInv, NEW h \in Handles, SetId(h)
  PROVE  ChainInv'
<1> DEFINE x == heap[h]
           o == taken[h]
           y == set_id(x, o)
<1>1. /\ x \in Output /\ o \in Published /\ o \in 0 .. Len(ledger)
      /\ stage[h] \in Stages /\ added[h] \in Additions
  BY DEF SetId, ChainInv, TypeOK, Published
<1>2. HeldAs(x, o, stage[h], added[h])
  BY DEF SetId, ChainInv, Held
<1>3. Continues(x, o) /\ stage[h] # "new"
  BY <1>2 DEF HeldAs, SetId
<1>4. /\ y \in Output /\ Continues(y, o) /\ Content(y) = Content(x)
      /\ y.type = x.type /\ y.unlock_conditions_ = x.unlock_conditions_
  BY <1>1, <1>3, SetIdContinues DEF ChainInv
<1>5. HeldAs(y, o, stage[h], added[h])
  BY <1>2, <1>3, <1>4 DEF HeldAs
<1>6. Hold(h, y, o, stage[h], added[h])
  BY DEF SetId, Hold, ChainInv, TypeOK
<1> QED
  BY <1>1, <1>4, <1>5, <1>6, HoldKeeps DEF SetId

LEMMA ConsumeInv ==
  ASSUME ChainInv, NEW h \in Handles, Consume(h)
  PROVE  ChainInv'
<1> DEFINE x == heap[h]
           o == taken[h]
<1>1. x \in Output /\ o \in 0 .. Len(ledger)
  BY DEF Consume, ChainInv, TypeOK
<1>2. /\ HeldAs(x, o, stage[h], added[h]) /\ o # 0
      /\ Continues(x, o)
      /\ x.type = Foundry => x.unlock_conditions_ # << >>
  BY DEF Consume, ChainInv, Held, HeldAs
<1>3. HeldAs(consume(x), o, "consumed", Nothing) /\ consume(x) \in Output
  BY <1>1, <1>2, ConsumeContinues DEF HeldAs
<1>4. Nothing \in Additions
  BY DEF Nothing, Additions
<1> QED
  BY <1>1, <1>3, <1>4, HoldKeeps DEF Consume, Stages

LEMMA FillInv ==
  ASSUME ChainInv, NEW h \in Handles, NEW a \in Address, NEW F \in SUBSET Feature,
         NEW T \in SUBSET Token, Fill(h, a, F, T)
  PROVE  ChainInv'
<1> DEFINE x == heap[h]
           o == taken[h]
           c == IF x.unlock_conditions_ = << >> THEN << a >> ELSE x.unlock_conditions_
           y == [x EXCEPT !.features_ = @ \cup F, !.native_tokens_ = @ \cup T,
                          !.unlock_conditions_ = IF @ = << >> THEN << a >> ELSE @]
           b == [features_ |-> F, native_tokens_ |-> T]
<1>1. x \in Output /\ o \in 0 .. Len(ledger) /\ b \in Additions
  BY DEF Fill, ChainInv, TypeOK, Additions
<1>2. HeldAs(x, o, "consumed", added[h])
  BY DEF Fill, ChainInv, Held
<1>3. /\ o # 0 /\ Continues(x, o) /\ Content(x) = Nothing
      /\ x.type = Foundry => x.unlock_conditions_ # << >>
  BY <1>2 DEF HeldAs
<1>4. x.features_ = {} /\ x.native_tokens_ = {}
  BY <1>3 DEF Content, Nothing
<1>5. << a >> \in Seq(Address) /\ c \in Seq(Address)
  BY <1>1 DEF Output
<1>6. y = [x EXCEPT !.features_ = F, !.native_tokens_ = T, !.unlock_conditions_ = c]
  BY <1>1, <1>4 DEF Output
<1>7. /\ y \in Output /\ y.type = x.type /\ y.id = x.id
      /\ y.immutable_features_ = x.immutable_features_ /\ y.serial_number_ = x.serial_number_
      /\ y.features_ = F /\ y.native_tokens_ = T /\ y.unlock_conditions_ = c
  BY <1>1, <1>5, <1>6 DEF Output
<1>8. x.type = Foundry => c = x.unlock_conditions_
  BY <1>3
<1> HIDE DEF y, c
<1>9. x.type = Foundry => get_id(y) = get_id(x)
  BY <1>7, <1>8 DEF get_id, Foundry, Alias, NFT
<1>10. Continues(y, o) /\ Content(y) = b
  BY <1>3, <1>7, <1>9 DEF Continues, Content
<1>11. HeldAs(y, o, "filled", b)
  BY <1>3, <1>7, <1>8, <1>10 DEF HeldAs
<1>12. Hold(h, y, o, "filled", b)
  BY DEF Fill, y
<1> QED
  BY <1>1, <1>7, <1>11, <1>12, HoldKeeps DEF Fill, Stages

LEMMA CloneToInv ==
  ASSUME ChainInv, NEW h \in Handles, NEW g \in Handles, CloneTo(h, g)
  PROVE  ChainInv'
<1>1. /\ heap[h] \in Output /\ taken[h] \in 0 .. Len(ledger) /\ stage[h] \in Stages
      /\ added[h] \in Additions
  BY DEF CloneTo, ChainInv, TypeOK
<1>2. HeldAs(heap[h], taken[h], stage[h], added[h])
  BY DEF CloneTo, ChainInv, Held
<1> QED
  BY <1>1, <1>2, HoldKeeps DEF CloneTo
(***************************************************************************)
(* Publishing is where both sides meet: what the pointer holds becomes the *)
(* last entry of the ledger, and the entries before it stay as they were.  *)
(***************************************************************************)
LEMMA PublishInv ==
  ASSUME ChainInv, NEW h \in Handles, Publish(h)
  PROVE  ChainInv'
<1> DEFINE n == Len(ledger)
           o == n + 1
           p == taken[h]
           x == heap[h]
           r == IF p = 0 THEN o ELSE ledger[p].root
           e == [output |-> x, spends |-> p, added |-> added[h], root |-> r]
<1>1. /\ n \in Nat /\ o <= MaxOutputs /\ x \in Output /\ p \in 0 .. n /\ x # nullptr
      /\ added[h] \in Additions /\ stage[h] \in Stages
      /\ ledger \in Seq(Entry) /\ ledger' = Append(ledger, e)
  BY DEF Publish, ChainInv, TypeOK
<1>2. HeldAs(x, p, stage[h], added[h])
  BY <1>1 DEF ChainInv, Held
<1>3. p # 0 => /\ ledger[p] \in Entry /\ ledger[p].root \in 1 .. p
               /\ stage[h] = "filled" /\ Continues(x, p) /\ Content(x) = added[h]
               /\ x.type \in {Alias, NFT} => x.id # ZeroId
  BY <1>1, <1>2 DEF Publish, ChainInv, TypeOK, Published, HeldAs
<1>4. p = 0 => stage[h] = "new" /\ x.id = ZeroId
  BY <1>2 DEF Publish, HeldAs
<1>5. r \in 1 .. o /\ (p # 0 => r < o)
  BY <1>1, <1>3
<1>6. e \in Entry
  BY <1>1, <1>5 DEF Entry
<1>7. /\ Len(ledger') = o /\ ledger' \in Seq(Entry)
      /\ \A q \in 1 .. n : ledger'[q] = ledger[q]
      /\ ledger'[o] = e
  BY <1>1, <1>6
<1> HIDE DEF e, r
<1>8. e.output = x /\ e.spends = p /\ e.root = r /\ e.added = added[h]
  BY DEF e
<1>9. 1 .. o = (1 .. n) \cup {o}
  BY <1>1
<1>10. x.type = Foundry => x.unlock_conditions_ # << >>
  BY <1>2 DEF HeldAs
<1>11. ASSUME NEW q \in 1 .. n
       PROVE  ledger[q].spends \in 0 .. n
  <2>1. ledger[q] \in Entry
    BY <1>1
  <2>2. ledger[q].spends \in Nat
    BY <2>1 DEF Entry
  <2>3. ledger[q].spends < q
    BY DEF ChainInv, TypeOK, Published
  <2> QED
    BY <1>1, <2>2, <2>3
<1>12. TypeOK'
  <2>1. heap' \in [Handles -> Output \cup {nullptr}] /\ stage' \in [Handles -> Stages]
    BY DEF Publish, ChainInv, TypeOK, Stages
  <2>2. added' \in [Handles -> Additions]
    BY DEF Publish, ChainInv, TypeOK, Nothing, Additions
  <2>3. taken' \in [Handles -> Nat] /\ \A g \in Handles : taken'[g] <= Len(ledger')
    BY <1>1, <1>7 DEF Publish, ChainInv, TypeOK
  <2>4. \A q \in Published' : ledger'[q].spends < q /\ ledger'[q].root \in 1 .. q
    BY <1>1, <1>5, <1>7, <1>8, <1>9 DEF ChainInv, TypeOK, Published
  <2>5. spent' \subseteq Published'
    <3>1. spent' = spent \/ (p \in 1 .. n /\ spent' = spent \cup {p})
      BY <1>1, <1>4 DEF Publish
    <3>2. spent \subseteq 1 .. n
      BY DEF ChainInv, TypeOK, Published
    <3> QED
      BY <1>7, <1>9, <3>1, <3>2 DEF Published
  <2> QED
    BY <1>7, <2>1, <2>2, <2>3, <2>4, <2>5 DEF TypeOK
<1>13. IdIsHashOfCreator'
  <2>1. ASSUME x.type \in {Alias, NFT}
        PROVE  x.id = IF r = o THEN ZeroId ELSE HashOf(r)
    <3>1. CASE p = 0
      BY <1>4, <3>1 DEF r
    <3>2. CASE p # 0
      BY <1>3, <1>5, <2>1, <3>2 DEF Continues, r
    <3> QED
      BY <3>1, <3>2
  <2> QED
    BY <1>7, <1>8, <1>9, <2>1 DEF ChainInv, LedgerOK, IdIsHashOfCreator, Published
<1>14. FoundriesOK'
  <2> SUFFICES ASSUME NEW q \in 1 .. o, ledger'[q].output.type = Foundry
               PROVE  /\ ledger'[q].output.unlock_conditions_ # << >>
                      /\ ledger'[q].spends # 0 =>
                           get_id(ledger'[q].output) = get_id(ledger'[ledger'[q].spends].output)
    BY <1>7 DEF FoundriesOK, Published, Successor, Pred, get_id
  <2>1. CASE q \in 1 .. n
    <3>1. ledger'[q] = ledger[q]
      BY <1>7, <2>1
    <3>2. ledger[q].spends # 0 => ledger[q].spends \in 1 .. n
      BY <1>1, <1>11, <2>1
    <3> QED
      BY <1>7, <2>1, <3>1, <3>2
      DEF ChainInv, LedgerOK, FoundriesOK, Published, Successor, Pred
  <2>2. CASE q = o
    <3>1. p # 0 => ledger'[p] = ledger[p]
      BY <1>1, <1>7
    <3> QED
      BY <1>3, <1>7, <1>8, <1>10, <2>2, <3>1 DEF Continues
  <2> QED
    BY <1>9, <2>1, <2>2
<1>15. SuccessorCarries'
  <2> SUFFICES ASSUME NEW q \in 1 .. o, ledger'[q].spends # 0
               PROVE  LET s == ledger'[ledger'[q].spends]
                      IN  /\ ledger'[q].output.type = s.output.type
                          /\ ledger'[q].output.immutable_features_ = s.output.immutable_features_
                          /\ Content(ledger'[q].output) = ledger'[q].added
    BY <1>7 DEF SuccessorCarries, Published, Successor, Pred, Content
  <2>1. CASE q \in 1 .. n
    <3>1. ledger'[q] = ledger[q]
      BY <1>7, <2>1
    <3>2. ledger[q].spends \in 1 .. n
      BY <1>1, <1>11, <2>1, <3>1
    <3> QED
      BY <1>7, <2>1, <3>1, <3>2 DEF ChainInv, LedgerOK, SuccessorCarries, Published, Successor, Pred
  <2>2. CASE q = o
    <3>1. p # 0 => ledger'[p] = ledger[p]
      BY <1>1, <1>7
    <3> QED
      BY <1>3, <1>7, <1>8, <2>2, <3>1 DEF Continues
  <2> QED
    BY <1>9, <2>1, <2>2
<1>16. LedgerOK'
  BY <1>1, <1>7, <1>13, <1>14, <1>15 DEF LedgerOK
<1>17. Held'
  <2> SUFFICES ASSUME NEW g \in Handles, heap'[g] # nullptr
               PROVE  HeldAs(heap[g], taken[g], stage[g], added[g])'
    BY DEF Held
  <2>0. heap'[g] = heap[g] /\ heap[g] # nullptr
    BY DEF Publish
  <2>1. CASE g = h
    <3>1. taken'[g] = o /\ stage'[g] = "taken" /\ heap'[g] = x
      BY <2>0, <2>1 DEF Publish, ChainInv, TypeOK
    <3>2. x.type \in {Alias, NFT} => IF x.id = ZeroId THEN r = o ELSE x.id = HashOf(r)
      BY <1>3, <1>4 DEF Continues, r
    <3>3. Continues(heap[g], taken[g])'
      BY <1>7, <1>8, <3>1, <3>2 DEF Continues
    <3> QED
      BY <1>1, <1>10, <3>1, <3>3 DEF HeldAs
  <2>2. CASE g # h
    <3>1. taken'[g] = taken[g] /\ stage'[g] = stage[g] /\ added'[g] = added[g]
      BY <2>2 DEF Publish, ChainInv, TypeOK
    <3>2. HeldAs(heap[g], taken[g], stage[g], added[g]) /\ taken[g] \in 0 .. n
      BY <1>1, <2>0 DEF ChainInv, TypeOK, Held
    <3>3. taken[g] # 0 => ledger'[taken[g]] = ledger[taken[g]]
      BY <1>7, <3>2
    <3> QED
      BY <2>0, <3>1, <3>2, <3>3 DEF HeldAs, Continues
  <2> QED
    BY <2>1, <2>2
<1> QED
  BY <1>12, <1>16, <1>17 DEF ChainInv
-----------------------------------------------------------------------------
(***************************************************************************)
(* ChainInv holds from the start and through every step of the client.     *)
(***************************************************************************)
THEOREM Invariance == Spec => []ChainInv
<1>1. Init => ChainInv
  BY InitInv
<1>2. ChainInv /\ [Next]_vars => ChainInv'
  <2> SUFFICES ASSUME ChainInv, [Next]_vars PROVE ChainInv'
    OBVIOUS
  <2>1. CASE Next
    <3>1. PICK h \in Handles :
            \/ Create(h)
            \/ \E o \in Published : Take(h, o)
            \/ SetId(h)
            \/ Consume(h)
            \/ \E a \in Address, F \in SUBSET Feature, T \in SUBSET Token : Fill(h, a, F, T)
            \/ \E g \in Handles : CloneTo(h, g)
            \/ Publish(h)
      BY <2>1 DEF Next
    <3>2. CASE Create(h)
      BY <3>2, CreateInv
    <3>3. CASE \E o \in Published : Take(h, o)
      BY <3>3, TakeInv
    <3>4. CASE SetId(h)
      BY <3>4, SetIdInv
    <3>5. CASE Consume(h)
      BY <3>5, ConsumeInv
    <3>6. CASE \E a \in Address, F \in SUBSET Feature, T \in SUBSET Token : Fill(h, a, F, T)
      BY <3>6, FillInv
    <3>7. CASE \E g \in Handles : CloneTo(h, g)
      BY <3>7, CloneToInv
    <3>8. CASE Publish(h)
      BY <3>8, PublishInv
    <3> QED
      BY <3>1, <3>2, <3>3, <3>4, <3>5, <3>6, <3>7, <3>8
  <2>2. CASE UNCHANGED vars
    BY <2>2 DEF vars, ChainInv, TypeOK, Held, HeldAs, Continues, LedgerOK, IdIsHashOfCreator,
                FoundriesOK, SuccessorCarries, Published, Successor, Pred
  <2> QED
    BY <2>1, <2>2
<1> QED
  BY <1>1, <1>2, PTL DEF Spec

(***************************************************************************)
(* Every variable keeps its type, and every successor comes after the      *)
(* output it spends.                                                       *)
(***************************************************************************)
THEOREM TypeCorrectness == Spec => []TypeOK
<1>1. ChainInv => TypeOK
  BY DEF ChainInv
<1> QED
  BY <1>1, Invariance, PTL

(***************************************************************************)
(* nft_id_ and alias_id_ of what is published are the hash of the output   *)
(* that created the chain, whatever the order of set_id, consume and clone *)
(* and however long the chain.                                             *)
(***************************************************************************)
THEOREM ChainIdentity == Spec => []IdIsHashOfCreator
<1>1. ChainInv => IdIsHashOfCreator
  BY DEF ChainInv, LedgerOK
<1> QED
  BY <1>1, Invariance, PTL

(***************************************************************************)
(* Two chains carry two identifiers: this needs, beyond the invariant,     *)
(* that the hash of two identifiers differs.                               *)
(***************************************************************************)
THEOREM Distinctness == Spec => []ChainsDistinct
<1>1. ChainInv => ChainsDistinct
  <2> SUFFICES ASSUME ChainInv, NEW o \in Published, NEW p \in Published,
                      ledger[o].output.type \in {Alias, NFT}, ledger[p].output.type \in {Alias, NFT},
                      ledger[o].output.id # ZeroId, ledger[o].output.id = ledger[p].output.id
               PROVE  ledger[o].root = ledger[p].root
    BY DEF ChainsDistinct
  <2>1. HashOf(ledger[o].root) = HashOf(ledger[p].root)
    BY DEF ChainInv, LedgerOK, IdIsHashOfCreator
  <2>2. ledger[o].root \in 1 .. MaxOutputs /\ ledger[p].root \in 1 .. MaxOutputs
    <3>1. Len(ledger) \in Nat /\ Len(ledger) <= MaxOutputs
      BY DEF ChainInv, TypeOK, LedgerOK
    <3>2. ledger[o].root \in 1 .. o /\ ledger[p].root \in 1 .. p
      BY DEF ChainInv, TypeOK
    <3> QED
      BY <3>1, <3>2, BoundAssumption DEF Published
  <2> QED
    BY <2>1, <2>2, HashAssumption
<1> QED
  BY <1>1, Invariance, PTL

(***************************************************************************)
(* get_id of a foundry is defined in every state and the same through all  *)
(* its successors.                                                         *)
(***************************************************************************)
THEOREM FoundryIdentity == Spec => []FoundryIdKept
<1>1. ChainInv => FoundryIdKept
  BY DEF ChainInv, LedgerOK, FoundriesOK, Held, HeldAs, FoundryIdKept, Successor
<1> QED
  BY <1>1, Invariance, PTL

(***************************************************************************)
(* A successor carries its predecessor's immutable features and nothing    *)
(* else that the client did not put there.                                 *)
(***************************************************************************)
THEOREM Succession == Spec => []SuccessorCarries
<1>1. ChainInv => SuccessorCarries
  BY DEF ChainInv, LedgerOK
<1> QED
  BY <1>1, Invariance, PTL
=============================================================================
