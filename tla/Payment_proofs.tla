----------------------------- MODULE Payment_proofs -----------------------------
(***************************************************************************)
(* Proofs about payments, for any committee, outputs, amounts, fees and    *)
(* schedule.                                                               *)
(*                                                                         *)
(* Who signed: a party gives the shares of a session for one transaction   *)
(* only (ShareInv), because it prepares once between two calls and a       *)
(* session is never entered again; behind the input it is signing lie the  *)
(* shares of everybody (SignInv); and so behind all inputs of what it      *)
(* broadcasts (PostInv).                                                   *)
(*                                                                         *)
(* How much: a selection covers the amount and the fee, and its change is  *)
(* what is left (AmountInv), which needs the sums of sequences of any      *)
(* length.  How often: each transaction but the first stands for a         *)
(* broadcast that got no answer (LossInv).                                 *)
(***************************************************************************)
EXTENDS Payment, FiniteSetTheorems, WellFoundedInduction, TLAPS

\* What the proofs about shares need of the types: they do not look at amounts.
Types == /\ pc \in [Party -> {"idle", "fetch", "sign", "post", "done", "failed"}]
         /\ session \in [Party -> Nat]
         /\ DOMAIN tx = Party
         /\ next \in [Party -> Nat]
         /\ arrived \subseteq Utxo

InputsInv == \A p \in Party : tx[p].inputs \in Seq(Utxo)

ShareInv == \A r \in offered :
  /\ r.party \in Party
  /\ r.session \in Nat /\ r.session <= session[r.party]
  /\ r.session = session[r.party] => pc[r.party] # "fetch" /\ r.tx = tx[r.party]

SignInv == \A p \in Party :
  /\ pc[p] \in {"sign", "post"} =>
       \A q \in Party : \A i \in 1 .. (next[p] - 1) : Share(q, session[p], i, tx[p]) \in offered
  /\ pc[p] = "sign" => next[p] >= 1
  /\ pc[p] = "post" => next[p] >= 2 /\ next[p] > Len(tx[p].inputs)

PostInv == \A r \in posted :
  /\ Party # {}
  /\ \A q \in Party : Share(q, r.session, 1, r.tx) \in offered

IInv == Types /\ InputsInv /\ ShareInv /\ SignInv /\ PostInv /\ SignedByAll
-----------------------------------------------------------------------------
\* A selection consists of outputs it was made from.
LEMMA SelectionType == ASSUME NEW us, NEW need, NEW s \in Selections(us, need)
                       PROVE  s \in Seq(us)
<1>1. s \in JustEnough(us, need)
  BY DEF Selections
<1>2. QED
  BY <1>1 DEF JustEnough

\* The invariant holds at the start.
LEMMA Initially == Init => IInv
<1>1. SUFFICES ASSUME Init PROVE IInv
  OBVIOUS
<1>2. Types /\ ShareInv /\ SignInv /\ PostInv /\ SignedByAll
  BY <1>1 DEF Init, Types, ShareInv, SignInv, PostInv, SignedByAll
<1>3. InputsInv
  <2>1. <<>> \in Seq(Utxo)
    OBVIOUS
  <2>2. \A p \in Party : tx[p].inputs = <<>>
    BY <1>1 DEF Init, NoTx
  <2>3. QED
    BY <2>1, <2>2 DEF InputsInv
<1>4. QED
  BY <1>2, <1>3 DEF IInv

\* New money at the address.
LEMMA ArriveStep == ASSUME IInv, NEW u \in Utxo, Arrive(u) PROVE IInv'
BY DEF Arrive, IInv, Types, InputsInv, ShareInv, SignInv, PostInv, SignedByAll

\* A call enters a session later than those of all its shares.
LEMMA CallStep == ASSUME IInv, NEW p \in Party, Call(p) PROVE IInv'
<1>1. PICK s \in Session : s > session[p] /\ session' = [session EXCEPT ![p] = s]
  BY DEF Call
<1>2. s \in Nat /\ Types
  BY PaymentAssumption DEF IInv
<1>3. Types' /\ InputsInv' /\ PostInv' /\ SignedByAll'
  <2>1. /\ pc' = [pc EXCEPT ![p] = "fetch"] /\ next' = next /\ tx' = tx
        /\ arrived' = arrived /\ offered' = offered /\ posted' = posted
    BY DEF Call
  <2>2. Types'
    BY <1>1, <1>2, <2>1 DEF Types
  <2>3. InputsInv' /\ PostInv' /\ SignedByAll'
    BY <2>1 DEF IInv, InputsInv, PostInv, SignedByAll
  <2>4. QED
    BY <2>2, <2>3
<1>4. ShareInv'
  <2>1. SUFFICES ASSUME NEW r \in offered
                 PROVE  /\ r.party \in Party
                        /\ r.session \in Nat /\ r.session <= session'[r.party]
                        /\ r.session = session'[r.party] =>
                             pc'[r.party] # "fetch" /\ r.tx = tx'[r.party]
    BY DEF ShareInv, Call
  <2>2. CASE r.party = p
    <3>1. session'[p] = s /\ session[p] \in Nat
      BY <1>1, <1>2 DEF Types
    <3>2. r.session \in Nat /\ r.session <= session[p]
      BY <2>2 DEF IInv, ShareInv
    <3>3. r.session < s
      BY <1>1, <1>2, <3>1, <3>2
    <3>4. QED
      BY <1>2, <2>2, <3>1, <3>2, <3>3
  <2>3. CASE r.party # p
    BY <1>1, <1>2, <2>3 DEF IInv, ShareInv, Types, Call
  <2>4. QED
    BY <2>2, <2>3
<1>5. SignInv'
  BY <1>1, <1>2 DEF IInv, SignInv, Types, Call
<1>6. QED
  BY <1>3, <1>4, <1>5 DEF IInv

\* A party's shares of its session begin with its transaction.
LEMMA PrepareStep == ASSUME IInv, NEW p \in Party, Prepare(p) PROVE IInv'
<1>1. PICK us \in Selections(arrived \ Spent, Amount + Fee[session[p]]) :
        LET t == [inputs |-> us, change |-> Change(us, Fee[session[p]])]
        IN  /\ tx' = [tx EXCEPT ![p] = t]
            /\ offered' = offered \cup {Share(p, session[p], 1, t)}
  BY DEF Prepare
<1>2. PICK t : /\ t.inputs = us
               /\ tx' = [tx EXCEPT ![p] = t]
               /\ offered' = offered \cup {Share(p, session[p], 1, t)}
  BY <1>1
<1>3. /\ pc[p] = "fetch" /\ pc' = [pc EXCEPT ![p] = "sign"]
      /\ next' = [next EXCEPT ![p] = 1]
      /\ session' = session /\ arrived' = arrived /\ posted' = posted
  BY DEF Prepare
<1>4. Types /\ InputsInv /\ ShareInv /\ SignInv /\ PostInv /\ SignedByAll
  BY DEF IInv
<1>5. us \in Seq(Utxo)
  <2>1. us \in Seq(arrived \ Spent)
    BY SelectionType
  <2>2. arrived \ Spent \subseteq Utxo
    BY <1>4 DEF Types
  <2>3. QED
    BY <2>1, <2>2
<1>6. tx'[p] = t /\ \A q \in Party \ {p} : tx'[q] = tx[q]
  BY <1>2, <1>4 DEF Types
<1>7. Types'
  BY <1>2, <1>3, <1>4 DEF Types
<1>8. InputsInv'
  BY <1>2, <1>4, <1>5, <1>6 DEF InputsInv
<1>9. ShareInv'
  <2>1. SUFFICES ASSUME NEW r \in offered'
                 PROVE  /\ r.party \in Party
                        /\ r.session \in Nat /\ r.session <= session[r.party]
                        /\ r.session = session[r.party] =>
                             pc'[r.party] # "fetch" /\ r.tx = tx'[r.party]
    BY <1>3 DEF ShareInv
  <2>2. CASE r = Share(p, session[p], 1, t)
    BY <1>3, <1>4, <1>6, <2>2 DEF Share, Types
  <2>3. CASE r \in offered /\ r.party = p
    BY <1>3, <1>4, <2>3 DEF ShareInv, Types
  <2>4. CASE r \in offered /\ r.party # p
    BY <1>3, <1>4, <1>6, <2>4 DEF ShareInv, Types
  <2>5. QED
    BY <1>2, <2>2, <2>3, <2>4
<1>10. SignInv'
  <2>1. pc'[p] = "sign" /\ next'[p] = 1
    BY <1>3, <1>4 DEF Types
  <2>2. \A q \in Party \ {p} : pc'[q] = pc[q] /\ next'[q] = next[q]
    BY <1>3, <1>4 DEF Types
  <2>3. offered \subseteq offered'
    BY <1>2
  <2>4. ASSUME NEW n \in Party, n # p
        PROVE  /\ pc'[n] \in {"sign", "post"} => \A q \in Party : \A i \in 1 .. (next'[n] - 1) :
                                           Share(q, session'[n], i, tx'[n]) \in offered'
               /\ pc'[n] = "sign" => next'[n] >= 1
               /\ pc'[n] = "post" => next'[n] >= 2 /\ next'[n] > Len(tx'[n].inputs)
    BY <1>3, <1>4, <1>6, <2>2, <2>3, <2>4 DEF SignInv
  <2>5. \A q \in Party : \A i \in 1 .. (next'[p] - 1) :
          Share(q, session'[p], i, tx'[p]) \in offered'
    BY <2>1
  <2>6. QED
    BY <2>1, <2>4, <2>5 DEF SignInv
<1>11. PostInv' /\ SignedByAll'
  BY <1>2, <1>3, <1>4 DEF PostInv, SignedByAll
<1>12. QED
  BY <1>7, <1>8, <1>9, <1>10, <1>11 DEF IInv

\* The signature of an input takes the shares of all; after the last one every
\* input has them.
LEMMA SignStep == ASSUME IInv, NEW p \in Party, SignInput(p) PROVE IInv'
<1>1. Types /\ InputsInv /\ ShareInv /\ SignInv /\ PostInv /\ SignedByAll
  BY DEF IInv
<1>2. /\ pc[p] = "sign" /\ Signable(p)
      /\ next' = [next EXCEPT ![p] = next[p] + 1]
      /\ session' = session /\ tx' = tx /\ arrived' = arrived /\ posted' = posted
  BY DEF SignInput
<1>3. \/ /\ next[p] < Len(tx[p].inputs)
         /\ offered' = offered \cup {Share(p, session[p], next[p] + 1, tx[p])}
         /\ pc' = pc
      \/ /\ ~(next[p] < Len(tx[p].inputs))
         /\ offered' = offered
         /\ pc' = [pc EXCEPT ![p] = "post"]
  BY DEF SignInput
<1>4. /\ next[p] \in Nat /\ next[p] >= 1 /\ next'[p] = next[p] + 1
      /\ Len(tx[p].inputs) \in Nat
  BY <1>1, <1>2 DEF Types, InputsInv, SignInv
<1>5. offered \subseteq offered'
  BY <1>3
<1>6. \A q \in Party : /\ q # p => pc'[q] = pc[q] /\ next'[q] = next[q]
                       /\ pc'[q] # "fetch" \/ pc'[q] = pc[q]
  BY <1>1, <1>2, <1>3 DEF Types
<1>7. Types' /\ InputsInv'
  <2>1. pc' \in [Party -> {"idle", "fetch", "sign", "post", "done", "failed"}]
    BY <1>1, <1>3 DEF Types
  <2>2. next' \in [Party -> Nat]
    BY <1>1, <1>2, <1>4 DEF Types
  <2>3. QED
    BY <1>1, <1>2, <2>1, <2>2 DEF Types, InputsInv
<1>8. ShareInv'
  <2>1. SUFFICES ASSUME NEW r \in offered'
                 PROVE  /\ r.party \in Party
                        /\ r.session \in Nat /\ r.session <= session[r.party]
                        /\ r.session = session[r.party] =>
                             pc'[r.party] # "fetch" /\ r.tx = tx[r.party]
    BY <1>2 DEF ShareInv
  <2>2. CASE r \in offered
    BY <1>1, <1>6, <2>2 DEF ShareInv
  <2>3. CASE r = Share(p, session[p], next[p] + 1, tx[p])
    <3>1. r.party = p /\ r.session = session[p] /\ r.tx = tx[p]
      BY <2>3 DEF Share
    <3>2. session[p] \in Nat /\ pc'[p] # "fetch"
      BY <1>1, <1>2, <1>6 DEF Types
    <3>3. QED
      BY <3>1, <3>2
  <2>4. QED
    BY <1>3, <2>2, <2>3
<1>9. SignInv'
  <2>1. ASSUME NEW q \in Party, NEW i \in 1 .. (next'[p] - 1)
        PROVE  Share(q, session[p], i, tx[p]) \in offered
    <3>1. i = next[p] \/ i \in 1 .. (next[p] - 1)
      BY <1>4
    <3>2. CASE i = next[p]
      BY <1>2, <3>2 DEF Signable
    <3>3. CASE i \in 1 .. (next[p] - 1)
      BY <1>1, <1>2, <3>3 DEF SignInv
    <3>4. QED
      BY <3>1, <3>2, <3>3
  <2>2. pc'[p] = "post" => next'[p] > Len(tx[p].inputs)
    BY <1>2, <1>3, <1>4
  <2>3. next'[p] >= 2
    BY <1>4
  <2>4. ASSUME NEW n \in Party, n # p
        PROVE  /\ pc'[n] \in {"sign", "post"} => \A q \in Party : \A i \in 1 .. (next'[n] - 1) :
                                           Share(q, session[n], i, tx[n]) \in offered'
               /\ pc'[n] = "sign" => next'[n] >= 1
               /\ pc'[n] = "post" => next'[n] >= 2 /\ next'[n] > Len(tx[n].inputs)
    BY <1>1, <1>5, <1>6, <2>4 DEF SignInv
  <2>5. QED
    <3>1. \A q \in Party : \A i \in 1 .. (next'[p] - 1) : Share(q, session[p], i, tx[p]) \in offered'
      BY <1>5, <2>1
    <3>2. next'[p] >= 1
      BY <1>4
    <3>3. QED
      BY <1>2, <2>2, <2>3, <2>4, <3>1, <3>2 DEF SignInv
<1>10. PostInv' /\ SignedByAll'
  BY <1>1, <1>2, <1>5 DEF PostInv, SignedByAll
<1>11. QED
  BY <1>7, <1>8, <1>9, <1>10 DEF IInv

\* A call that fails, or was refused, changes no share and no transaction.
LEMMA FailStep == ASSUME IInv, NEW p \in Party, Fail(p) \/ PostRefused(p) PROVE IInv'
<1>1. /\ pc' = [pc EXCEPT ![p] = "failed"]
      /\ session' = session /\ tx' = tx /\ next' = next /\ offered' = offered
      /\ arrived' = arrived /\ posted' = posted
  BY DEF Fail, PostRefused
<1>2. Types' /\ InputsInv' /\ PostInv' /\ SignedByAll'
  BY <1>1 DEF IInv, Types, InputsInv, PostInv, SignedByAll
<1>3. ShareInv' /\ SignInv'
  BY <1>1 DEF IInv, Types, ShareInv, SignInv
<1>4. QED
  BY <1>2, <1>3 DEF IInv

\* What a party broadcasts has the shares of all for every input.
LEMMA PostStep == ASSUME IInv, NEW p \in Party, PostTx(p) \/ PostLost(p) PROVE IInv'
<1>1. Types /\ InputsInv /\ ShareInv /\ SignInv /\ PostInv /\ SignedByAll
  BY DEF IInv
<1>2. /\ pc[p] = "post"
      /\ pc' = [pc EXCEPT ![p] = "done"] \/ pc' = [pc EXCEPT ![p] = "failed"]
      /\ session' = session /\ tx' = tx /\ next' = next /\ offered' = offered
      /\ arrived' = arrived
  BY DEF PostTx, PostLost
<1>3. posted' \subseteq posted \cup {[session |-> session[p], tx |-> tx[p]]}
  BY DEF PostTx, PostLost, Enter
<1>4. Types' /\ InputsInv'
  BY <1>1, <1>2 DEF Types, InputsInv
<1>5. ShareInv' /\ SignInv'
  <2>1. \A q \in Party : pc'[q] = pc[q] \/ pc'[q] \in {"done", "failed"}
    BY <1>1, <1>2 DEF Types
  <2>2. QED
    BY <1>1, <1>2, <2>1 DEF ShareInv, SignInv
<1>6. \A q \in Party : \A i \in 1 .. (next[p] - 1) : Share(q, session[p], i, tx[p]) \in offered
  BY <1>1, <1>2 DEF SignInv
<1>7. /\ next[p] \in Nat /\ next[p] >= 2 /\ Len(tx[p].inputs) \in Nat
      /\ next[p] > Len(tx[p].inputs)
      /\ DOMAIN tx[p].inputs = 1 .. Len(tx[p].inputs)
  BY <1>1, <1>2 DEF Types, InputsInv, SignInv
<1>8. PostInv'
  <2>1. \A q \in Party : Share(q, session[p], 1, tx[p]) \in offered
    BY <1>6, <1>7
  <2>2. QED
    BY <1>1, <1>2, <1>3, <2>1 DEF PostInv
<1>9. SignedByAll'
  <2>1. \A q \in Party : \A i \in DOMAIN tx[p].inputs : Share(q, session[p], i, tx[p]) \in offered
    <3>1. \A i \in DOMAIN tx[p].inputs : i \in 1 .. (next[p] - 1)
      BY <1>7
    <3>2. QED
      BY <1>6, <3>1
  <2>2. QED
    BY <1>1, <1>2, <1>3, <2>1 DEF SignedByAll
<1>10. QED
  BY <1>4, <1>5, <1>8, <1>9 DEF IInv

\* The inductive invariant holds in every reachable state.
THEOREM Invariance == Spec => []IInv
<1>1. Init => IInv
  BY Initially
<1>2. IInv /\ [Next]_vars => IInv'
  <2>1. SUFFICES ASSUME IInv, [Next]_vars PROVE IInv'
    OBVIOUS
  <2>2. CASE \E u \in Utxo : Arrive(u)
    BY <2>1, <2>2, ArriveStep
  <2>3. CASE \E p \in Party : Pay(p)
    BY <2>1, <2>3, CallStep, PrepareStep, SignStep, FailStep, PostStep DEF Pay
  <2>4. CASE UNCHANGED vars
    BY <2>1, <2>4
       DEF vars, IInv, Types, InputsInv, ShareInv, SignInv, PostInv, SignedByAll
  <2>5. QED
    BY <2>1, <2>2, <2>3, <2>4 DEF Next
<1>3. QED
  BY <1>1, <1>2, PTL DEF Spec

\* Every input of a broadcast transaction was signed by every party of its session,
\* as an input of that very transaction.
THEOREM BroadcastIsSignedByAll == Spec => []SignedByAll
<1>1. IInv => SignedByAll
  BY DEF IInv
<1>2. QED
  BY <1>1, Invariance, PTL

-----------------------------------------------------------------------------
\* A party's shares of a session are for one transaction.
OneOffer == \A r1, r2 \in offered :
  r1.party = r2.party /\ r1.session = r2.session => r1.tx = r2.tx

\* A new share agrees with those its party has already given in that session.
NewShare(r) == \A r1 \in offered :
  r1.party = r.party /\ r1.session = r.session => r1.tx = r.tx

\* Only Prepare and SignInput give shares: the first when its session has none of
\* the party yet, the second for the transaction of the earlier ones.
LEMMA OfferStep == ASSUME IInv, OneOffer, Next PROVE OneOffer'
<1>1. Types /\ ShareInv
  BY DEF IInv
<1>2. CASE offered' = offered
  BY <1>2 DEF OneOffer
<1>3. CASE \E p \in Party : Prepare(p) \/ SignInput(p)
  <2>1. PICK p \in Party : Prepare(p) \/ SignInput(p)
    BY <1>3
  <2>2. CASE Prepare(p)
    <3>1. PICK t : offered' = offered \cup {Share(p, session[p], 1, t)}
      BY <2>2 DEF Prepare
    <3>2. NewShare(Share(p, session[p], 1, t))
      BY <1>1, <2>2 DEF NewShare, Share, ShareInv, Prepare
    <3>3. QED
      BY <3>1, <3>2 DEF OneOffer, NewShare
  <2>3. CASE SignInput(p)
    <3>1. \/ offered' = offered
          \/ offered' = offered \cup {Share(p, session[p], next[p] + 1, tx[p])}
      BY <2>3 DEF SignInput
    <3>2. NewShare(Share(p, session[p], next[p] + 1, tx[p]))
      BY <1>1 DEF NewShare, Share, ShareInv
    <3>3. QED
      BY <3>1, <3>2 DEF OneOffer, NewShare
  <2>4. QED
    BY <2>1, <2>2, <2>3
<1>4. QED
  BY <1>2, <1>3 DEF Next, Pay, Arrive, Call, Fail, PostTx, PostRefused, PostLost

LEMMA OneOfferHolds == Spec => []OneOffer
<1>1. Init => OneOffer
  BY DEF Init, OneOffer
<1>2. IInv /\ OneOffer /\ [Next]_vars => OneOffer'
  <2>1. ASSUME UNCHANGED vars, OneOffer PROVE OneOffer'
    BY <2>1 DEF vars, OneOffer
  <2>2. QED
    BY <2>1, OfferStep
<1>3. QED
  BY <1>1, <1>2, Invariance, PTL DEF Spec

\* A session broadcasts one transaction: each of two broadcasts has a share of some
\* party for its first input, and that party gives those for one transaction only.
THEOREM OneTransactionPerSession == Spec => []OneTransaction
<1>1. IInv /\ OneOffer => OneTransaction
  <2>1. SUFFICES ASSUME IInv, OneOffer,
                        NEW r1 \in posted, NEW r2 \in posted, r1.session = r2.session
                 PROVE  r1.tx = r2.tx
    BY DEF OneTransaction
  <2>2. PICK q \in Party : TRUE
    BY <2>1 DEF IInv, PostInv
  <2>3. /\ Share(q, r1.session, 1, r1.tx) \in offered
        /\ Share(q, r2.session, 1, r2.tx) \in offered
    BY <2>1, <2>2 DEF IInv, PostInv
  <2>4. QED
    BY <2>1, <2>3 DEF OneOffer, Share
<1>2. QED
  BY <1>1, Invariance, OneOfferHolds, PTL

-----------------------------------------------------------------------------
(* Adding up: what the loop of SelectUTXOs computes, for selections of any length *)

\* A set of numbers that is not empty has a least one.
LEMMA LeastNumber ==
  ASSUME NEW T \in SUBSET Nat, T # {}
  PROVE  \E x \in T : \A y \in T : x <= y
<1>1. PICK x \in T : \A y \in T : ~ (<<y, x>> \in OpToRel(<, Nat))
  BY NatLessThanWellFounded, WFMin
<1>2. \A y \in T : ~ (y < x)
  BY <1>1 DEF OpToRel
<1>3. QED
  BY <1>2

\* Induction over the natural numbers, for a set: a least number outside the set
\* would have a predecessor inside it.
LEMMA SetInduction ==
  ASSUME NEW S, 0 \in S, \A n \in Nat : n \in S => n + 1 \in S
  PROVE  Nat \subseteq S
<1> DEFINE T == Nat \ S
<1> SUFFICES ASSUME T # {}  PROVE FALSE
  OBVIOUS
<1>1. PICK x \in T : \A y \in T : x <= y
  BY LeastNumber
<1>2. x \in Nat /\ x # 0 /\ x - 1 \in Nat /\ x - 1 \notin T
  BY <1>1
<1>3. QED
  BY <1>2

\* The running totals of the first n outputs.
Sums(us, n, f) == f = [i \in 0 .. n |-> IF i = 0 THEN 0 ELSE f[i - 1] + Value[us[i]]]

\* The recursion defines a function.
LEMMA SumsExist == ASSUME NEW us  PROVE \A n \in Nat : \E f : Sums(us, n, f)
<1> DEFINE S == {n \in Nat : \E f : Sums(us, n, f)}
<1>1. 0 \in S
  <2>1. Sums(us, 0, [i \in 0 .. 0 |-> 0])
    BY DEF Sums
  <2>2. QED
    BY <2>1
<1>2. ASSUME NEW n \in Nat, n \in S  PROVE n + 1 \in S
  <2>1. PICK f : Sums(us, n, f)
    BY <1>2
  <2> DEFINE g == [i \in 0 .. (n + 1) |-> IF i = n + 1 THEN f[n] + Value[us[n + 1]] ELSE f[i]]
  <2>2. ASSUME NEW i \in 0 .. (n + 1)
        PROVE  g[i] = IF i = 0 THEN 0 ELSE g[i - 1] + Value[us[i]]
    <3>1. CASE i = n + 1
      BY <3>1
    <3>2. CASE i \in 0 .. n
      <4>1. f[i] = IF i = 0 THEN 0 ELSE f[i - 1] + Value[us[i]]
        BY <2>1, <3>2 DEF Sums
      <4>2. QED
        BY <3>2, <4>1
    <3>3. QED
      BY <3>1, <3>2
  <2>3. g = [i \in 0 .. (n + 1) |-> IF i = 0 THEN 0 ELSE g[i - 1] + Value[us[i]]]
    BY <2>2
  <2>4. Sums(us, n + 1, g)
    BY <2>3 DEF Sums
  <2>5. QED
    BY <2>4
<1> HIDE DEF S
<1>3. Nat \subseteq S
  BY <1>1, <1>2, SetInduction
<1>4. QED
  BY <1>3 DEF S

\* The function of the recursion, taken apart.
LEMMA SumsStep ==
  ASSUME NEW us, NEW n \in Nat, NEW f, Sums(us, n, f)
  PROVE  /\ f[0] = 0
         /\ \A i \in 1 .. n : f[i] = f[i - 1] + Value[us[i]]
<1>1. \A i \in 0 .. n : f[i] = IF i = 0 THEN 0 ELSE f[i - 1] + Value[us[i]]
  BY DEF Sums
<1>2. QED
  BY <1>1

\* Running totals are amounts, and never fall.
LEMMA SumsType ==
  ASSUME NEW us \in Seq(Utxo), NEW n \in 0 .. Len(us), NEW f, Sums(us, n, f)
  PROVE  \A i \in 0 .. n : f[i] \in Nat /\ (i > 0 => f[i - 1] <= f[i])
<1> DEFINE S == {i \in Nat : i <= n => f[i] \in Nat}
<1>1. 0 \in S
  BY SumsStep
<1>2. ASSUME NEW i \in Nat, i \in S, i + 1 <= n
      PROVE  f[i + 1] \in Nat /\ f[i] \in Nat /\ f[i] <= f[i + 1]
  <2>1. f[i + 1] = f[(i + 1) - 1] + Value[us[i + 1]]
    BY <1>2, SumsStep
  <2>2. Value[us[i + 1]] \in Nat
    BY <1>2, PaymentAssumption
  <2>3. QED
    BY <1>2, <2>1, <2>2
<1>3. Nat \subseteq S
  <2>1. \A i \in Nat : i \in S => i + 1 \in S
    BY <1>2
  <2> HIDE DEF S
  <2>2. QED
    BY <1>1, <2>1, SetInduction
<1>4. ASSUME NEW i \in 0 .. n
      PROVE  f[i] \in Nat /\ (i > 0 => f[i - 1] <= f[i])
  <2>1. f[i] \in Nat
    BY <1>3
  <2>2. CASE i > 0
    <3>1. i - 1 \in Nat /\ i - 1 \in S /\ (i - 1) + 1 <= n /\ (i - 1) + 1 = i
      BY <1>3, <2>2
    <3>2. f[i - 1] <= f[(i - 1) + 1]
      BY <1>2, <3>1
    <3>3. QED
      BY <2>1, <3>1, <3>2
  <2>3. QED
    BY <2>1, <2>2
<1>5. QED
  BY <1>4

\* Total is the last of the running totals.
LEMMA TotalIsLast ==
  ASSUME NEW us \in Seq(Utxo)
  PROVE  \E f : Sums(us, Len(us), f) /\ Total(us) = f[Len(us)]
<1> DEFINE f == CHOOSE g : Sums(us, Len(us), g)
<1>1. Total(us) = f[Len(us)]
  BY DEF Total, Sums
<1>2. Sums(us, Len(us), f)
  BY SumsExist
<1>3. QED
  BY <1>1, <1>2

LEMMA TotalType == ASSUME NEW us \in Seq(Utxo)  PROVE Total(us) \in Nat
BY TotalIsLast, SumsType

\* The total of a prefix is the running total there.
LEMMA TotalOfPrefix ==
  ASSUME NEW us \in Seq(Utxo), NEW f, Sums(us, Len(us), f), NEW k \in 0 .. Len(us)
  PROVE  Total(SubSeq(us, 1, k)) = f[k]
<1> DEFINE vs == SubSeq(us, 1, k)
<1>1. vs \in Seq(Utxo) /\ Len(vs) = k /\ \A i \in 1 .. k : vs[i] = us[i]
  OBVIOUS
<1>2. PICK g : Sums(vs, k, g) /\ Total(vs) = g[k]
  BY <1>1, TotalIsLast
<1> HIDE DEF vs
<1> DEFINE S == {i \in Nat : i <= k => g[i] = f[i]}
<1>3. 0 \in S
  <2>1. g[0] = 0
    BY <1>1, <1>2, SumsStep
  <2>2. Len(us) \in Nat /\ f[0] = 0
    BY SumsStep
  <2>3. QED
    BY <2>1, <2>2
<1>4. ASSUME NEW i \in Nat, i \in S  PROVE i + 1 \in S
  <2> SUFFICES ASSUME i + 1 <= k  PROVE g[i + 1] = f[i + 1]
    OBVIOUS
  <2>1. g[i + 1] = g[(i + 1) - 1] + Value[vs[i + 1]]
    BY <1>2, SumsStep
  <2>2. f[i + 1] = f[(i + 1) - 1] + Value[us[i + 1]]
    BY SumsStep
  <2>3. QED
    BY <1>1, <1>4, <2>1, <2>2
<1> HIDE DEF S
<1>5. Nat \subseteq S
  BY <1>3, <1>4, SetInduction
<1>6. QED
  BY <1>2, <1>5 DEF S, vs
\* No prefix is worth more than the whole.
LEMMA PrefixIsLess ==
  ASSUME NEW us \in Seq(Utxo), NEW k \in 0 .. Len(us)
  PROVE  Total(SubSeq(us, 1, k)) <= Total(us)
<1>1. PICK f : Sums(us, Len(us), f) /\ Total(us) = f[Len(us)]
  BY TotalIsLast
<1> DEFINE S == {i \in Nat : k + i <= Len(us) => f[k] <= f[k + i]}
<1>2. \A i \in 0 .. Len(us) : f[i] \in Nat /\ (i > 0 => f[i - 1] <= f[i])
  BY <1>1, SumsType
<1>3. 0 \in S
  BY <1>2
<1>4. ASSUME NEW i \in Nat, i \in S  PROVE i + 1 \in S
  <2> SUFFICES ASSUME k + (i + 1) <= Len(us)  PROVE f[k] <= f[k + (i + 1)]
    OBVIOUS
  <2>1. f[k] <= f[k + i]
    BY <1>4
  <2>2. k + (i + 1) \in 0 .. Len(us) /\ k + (i + 1) > 0 /\ (k + (i + 1)) - 1 = k + i
    OBVIOUS
  <2>3. f[k + i] <= f[k + (i + 1)] /\ f[k + i] \in Nat /\ f[k + (i + 1)] \in Nat /\ f[k] \in Nat
    BY <1>2, <2>2
  <2>4. QED
    BY <2>1, <2>3
<1> HIDE DEF S
<1>5. Nat \subseteq S
  BY <1>3, <1>4, SetInduction
<1>6. f[k] <= f[Len(us)]
  <2>1. Len(us) - k \in Nat /\ k + (Len(us) - k) = Len(us)
    OBVIOUS
  <2>2. QED
    BY <1>5, <2>1 DEF S
<1>7. QED
  BY <1>1, <1>6, TotalOfPrefix

\* The order of the outputs is a sequence of them all.
LEMMA OrderedType ==
  ASSUME NEW us \in SUBSET Utxo, NEW o \in Ordered(us)
  PROVE  o \in Seq(us) /\ o \in Seq(Utxo) /\ Len(o) = Cardinality(us) /\ Cardinality(us) \in Nat
<1>1. Cardinality(us) \in Nat
  BY PaymentAssumption, FS_Subset, FS_CardinalityType
<1>2. o \in SetToSeqs(us)
  BY DEF Ordered, IsSorted
<1>3. o \in [1 .. Cardinality(us) -> us]
  BY <1>2 DEF SetToSeqs
<1>4. QED
  BY <1>1, <1>3

\* SelectUTXOs answers with an error only when the outputs together are not enough:
\* in the order it has sorted them in, it finds a selection exactly when they are, and
\* only one.
THEOREM SelectionIsComplete ==
  ASSUME NEW us \in SUBSET Utxo, us # {}, NEW o \in Ordered(us), NEW need \in Nat
  PROVE  /\ Total(o) >= need <=>
              \E n \in 1 .. Cardinality(us) : SubSeq(o, 1, n) \in Selections(us, need)
         /\ \A m, n \in 1 .. Cardinality(us) :
              (SubSeq(o, 1, m) \in Selections(us, need) /\ SubSeq(o, 1, n) \in Selections(us, need))
                => m = n
<1> DEFINE N == Cardinality(us)
           Worth(n) == Total(SubSeq(o, 1, n))
<1>1. o \in Seq(us) /\ o \in Seq(Utxo) /\ Len(o) = N /\ N \in Nat
  BY OrderedType
<1>2. N >= 1
  BY <1>1, PaymentAssumption, FS_Subset, FS_EmptySet
<1>3. \A n \in 0 .. N : Worth(n) \in Nat
  <2>1. \A n \in 0 .. N : SubSeq(o, 1, n) \in Seq(Utxo)
    BY <1>1
  <2>2. QED
    BY <2>1, TotalType
<1>4. ASSUME NEW n \in 1 .. N
      PROVE  SubSeq(o, 1, n) \in Selections(us, need) <=>
               Worth(n) >= need /\ (n > 1 => Worth(n - 1) < need)
  <2> DEFINE s == SubSeq(o, 1, n)
  <2>1. s \in Seq(us) /\ Len(s) = n
    BY <1>1
  <2>2. Front(s) = SubSeq(o, 1, n - 1)
    BY <1>1 DEF Front
  <2>3. s \in JustEnough(us, need) <=> Worth(n) >= need /\ (n > 1 => Worth(n - 1) < need)
    BY <2>1, <2>2 DEF JustEnough
  <2>4. s \in Selections(us, need) <=> s \in JustEnough(us, need)
    BY DEF Selections
  <2>5. QED
    BY <2>3, <2>4
<1>5. ASSUME NEW m \in 0 .. N, NEW n \in 0 .. N, m <= n
      PROVE  Worth(m) <= Worth(n)
  <2> DEFINE s == SubSeq(o, 1, n)
  <2>1. s \in Seq(Utxo) /\ m \in 0 .. Len(s) /\ SubSeq(s, 1, m) = SubSeq(o, 1, m)
    BY <1>1, <1>5
  <2>2. QED
    BY <2>1, PrefixIsLess
<1>6. SubSeq(o, 1, N) = o
  BY <1>1
<1> HIDE DEF Worth, N
<1>7. ASSUME Total(o) >= need
      PROVE  \E n \in 1 .. N : SubSeq(o, 1, n) \in Selections(us, need)
  <2> DEFINE T == {n \in 1 .. N : Worth(n) >= need}
  <2>1. N \in T
    <3>1. Worth(N) >= need
      BY <1>6, <1>7 DEF Worth
    <3>2. QED
      BY <1>1, <1>2, <3>1
  <2>2. PICK n \in T : \A k \in T : n <= k
    <3>1. T \in SUBSET Nat /\ T # {}
      BY <2>1
    <3>2. QED
      BY <3>1, LeastNumber
  <2>3. n > 1 => Worth(n - 1) < need
    <3>1. n > 1 => n - 1 \in 1 .. N /\ n - 1 \notin T
      BY <1>1, <2>2
    <3>2. QED
      BY <1>3, <3>1
  <2>4. QED
    BY <1>4, <2>2, <2>3
<1>8. ASSUME NEW n \in 1 .. N, SubSeq(o, 1, n) \in Selections(us, need)
      PROVE  Total(o) >= need
  <2>1. Worth(n) >= need /\ Worth(n) <= Worth(N)
    BY <1>1, <1>2, <1>4, <1>5, <1>8
  <2>2. Worth(N) = Total(o)
    BY <1>6 DEF Worth
  <2>3. Worth(n) \in Nat /\ Worth(N) \in Nat
    BY <1>1, <1>2, <1>3
  <2>4. QED
    BY <2>1, <2>2, <2>3
<1>9. ASSUME NEW m \in 1 .. N, NEW n \in 1 .. N, m < n,
             SubSeq(o, 1, m) \in Selections(us, need), SubSeq(o, 1, n) \in Selections(us, need)
      PROVE  FALSE
  <2>1. Worth(m) >= need /\ Worth(n - 1) < need
    BY <1>4, <1>9
  <2>2. n - 1 \in 0 .. N /\ m \in 0 .. N /\ m <= n - 1
    BY <1>1, <1>9
  <2>3. Worth(m) <= Worth(n - 1) /\ Worth(m) \in Nat /\ Worth(n - 1) \in Nat
    BY <1>3, <1>5, <2>2
  <2>4. QED
    BY <2>1, <2>3
<1>10. \A m, n \in 1 .. N : (SubSeq(o, 1, m) \in Selections(us, need)
                             /\ SubSeq(o, 1, n) \in Selections(us, need)) => m = n
  BY <1>1, <1>9
<1>11. QED
  BY <1>7, <1>8, <1>10 DEF N

-----------------------------------------------------------------------------
(* Types and amounts *)

\* What the miners get is the agreed fee, or more by what is not worth an output.
FeeFits(t, fee) == Paid(t) >= fee /\ Paid(t) <= fee + Dust

\* A selection is a transaction's worth of outputs: not empty, and with the change
\* it leaves the fee that was agreed.
LEMMA SelectionPays ==
  ASSUME NEW us \in SUBSET Utxo, NEW fee \in Nat, NEW s \in Selections(us, Amount + fee),
         NEW t, t = [inputs |-> s, change |-> Change(s, fee)]
  PROVE  /\ s \in Seq(us) /\ 1 \in DOMAIN s
         /\ t.change \in Nat /\ FeeFits(t, fee)
<1>1. s \in Seq(us) /\ s \in Seq(Utxo) /\ Total(s) >= Amount + fee
  BY DEF Selections, JustEnough
<1>2. 1 \in DOMAIN s
  <2>1. Cardinality(us) \in Nat
    BY PaymentAssumption, FS_Subset, FS_CardinalityType
  <2>2. PICK o \in Ordered(us), n \in 1 .. Cardinality(us) : s = SubSeq(o, 1, n)
    BY DEF Selections
  <2>3. Len(s) = n
    BY <2>1, <2>2, <1>1
  <2>4. QED
    BY <1>1, <2>1, <2>3
<1>3. Total(s) \in Nat /\ Amount \in Nat /\ Dust \in Nat
  BY <1>1, TotalType, PaymentAssumption
<1> DEFINE rest == Total(s) - Amount - fee
<1>4. t.inputs = s /\ t.change = IF rest > Dust THEN rest ELSE 0
  BY DEF Change
<1>5. rest \in Nat
  BY <1>1, <1>3
<1>6. t.change \in Nat
  BY <1>4, <1>5
<1>7. Paid(t) = Total(s) - Amount - t.change
  BY <1>4 DEF Paid
<1>8. FeeFits(t, fee)
  BY <1>3, <1>4, <1>5, <1>6, <1>7 DEF FeeFits
<1>9. QED
  BY <1>1, <1>2, <1>6, <1>8

\* A transaction is built from what has arrived.
TxInv == \A p \in Party : tx[p].inputs \in Seq(arrived) /\ tx[p].change \in Nat

\* A party works for a session of the program; what it signs pays the fee.
WorkInv == \A p \in Party :
  /\ session[p] \in Session \cup {0}
  /\ pc[p] \in {"fetch", "sign", "post"} => session[p] \in Session
  /\ pc[p] \in {"sign", "post"} => /\ 1 \in DOMAIN tx[p].inputs
                                   /\ FeeFits(tx[p], Fee[session[p]])

OfferInv == \A r \in offered : r.session \in Session /\ r.input \in DOMAIN r.tx.inputs

PaysInv == \A r \in posted : r.session \in Session /\ FeeFits(r.tx, Fee[r.session])

LostInv == lost \in 0 .. MaxLost

AmountInv == TxInv /\ WorkInv /\ OfferInv /\ PaysInv /\ LostInv

LEMMA AmountInit == Init => AmountInv
<1> SUFFICES ASSUME Init  PROVE AmountInv
  OBVIOUS
<1>1. TxInv
  <2>1. <<>> \in Seq(arrived)
    OBVIOUS
  <2>2. QED
    BY <2>1 DEF Init, NoTx, TxInv
<1>2. WorkInv /\ OfferInv /\ PaysInv
  BY DEF Init, WorkInv, OfferInv, PaysInv
<1>3. LostInv
  BY PaymentAssumption DEF Init, LostInv
<1>4. QED
  BY <1>1, <1>2, <1>3 DEF AmountInv

\* Money that arrives leaves the transactions possible.
LEMMA AmountArrive == ASSUME AmountInv, NEW u \in Utxo, Arrive(u)  PROVE AmountInv'
<1>1. /\ arrived' = arrived \cup {u}
      /\ UNCHANGED <<pc, session, tx, offered, posted, lost>>
  BY DEF Arrive
<1>2. TxInv'
  <2>1. \A s : s \in Seq(arrived) => s \in Seq(arrived')
    BY <1>1
  <2>2. QED
    BY <1>1, <2>1 DEF AmountInv, TxInv
<1>3. WorkInv' /\ OfferInv' /\ PaysInv' /\ LostInv'
  BY <1>1 DEF AmountInv, WorkInv, OfferInv, PaysInv, LostInv, FeeFits, Paid
<1>4. QED
  BY <1>2, <1>3 DEF AmountInv

LEMMA AmountCall == ASSUME Types, AmountInv, NEW p \in Party, Call(p)  PROVE AmountInv'
<1>1. PICK s \in Session : session' = [session EXCEPT ![p] = s]
  BY DEF Call
<1>2. /\ pc' = [pc EXCEPT ![p] = "fetch"]
      /\ UNCHANGED <<tx, offered, arrived, posted, lost>>
  BY DEF Call
<1>3. WorkInv'
  <2>1. ASSUME NEW q \in Party, q # p
        PROVE  session'[q] = session[q] /\ pc'[q] = pc[q]
    BY <1>1, <1>2, <2>1 DEF Types
  <2>2. session'[p] = s /\ pc'[p] = "fetch"
    BY <1>1, <1>2 DEF Types
  <2>3. ASSUME NEW q \in Party
        PROVE  /\ session'[q] \in Session \cup {0}
               /\ pc'[q] \in {"fetch", "sign", "post"} => session'[q] \in Session
               /\ pc'[q] \in {"sign", "post"} => /\ 1 \in DOMAIN tx[q].inputs
                                                 /\ FeeFits(tx[q], Fee[session'[q]])
    <3>1. CASE q = p
      BY <2>2, <3>1
    <3>2. CASE q # p
      BY <2>1, <3>2 DEF AmountInv, WorkInv
    <3>3. QED
      BY <3>1, <3>2
  <2>4. QED
    BY <1>2, <2>3 DEF WorkInv, FeeFits, Paid
<1>4. TxInv' /\ OfferInv' /\ PaysInv' /\ LostInv'
  BY <1>2 DEF AmountInv, TxInv, OfferInv, PaysInv, LostInv, FeeFits, Paid
<1>5. QED
  BY <1>3, <1>4 DEF AmountInv

\* The transaction that is built pays the fee of its session.
LEMMA AmountPrepare == ASSUME Types, AmountInv, NEW p \in Party, Prepare(p)  PROVE AmountInv'
<1> DEFINE fee == Fee[session[p]]
<1>1. PICK us \in Selections(arrived \ Spent, Amount + fee) :
        LET t == [inputs |-> us, change |-> Change(us, fee)]
        IN  /\ tx' = [tx EXCEPT ![p] = t]
            /\ offered' = offered \cup {Share(p, session[p], 1, t)}
  BY DEF Prepare
<1> DEFINE t == [inputs |-> us, change |-> Change(us, fee)]
<1>2. /\ pc' = [pc EXCEPT ![p] = "sign"] /\ pc[p] = "fetch"
      /\ UNCHANGED <<session, arrived, posted, lost>>
  BY DEF Prepare
<1>3. session[p] \in Session /\ fee \in Nat
  BY <1>2, PaymentAssumption DEF AmountInv, WorkInv
<1>4. /\ us \in Seq(arrived \ Spent) /\ 1 \in DOMAIN us
      /\ t.change \in Nat /\ FeeFits(t, fee)
  <2>1. arrived \ Spent \subseteq Utxo
    BY DEF Types
  <2>2. QED
    BY <1>3, <2>1, SelectionPays
<1>5. t.inputs = us /\ tx' = [tx EXCEPT ![p] = t] /\ offered' = offered \cup {Share(p, session[p], 1, t)}
  BY <1>1
<1> HIDE DEF t, fee
<1>6. tx'[p] = t /\ \A q \in Party \ {p} : tx'[q] = tx[q]
  BY <1>5 DEF Types
<1>7. TxInv'
  <2>1. us \in Seq(arrived)
    BY <1>4
  <2>2. QED
    BY <1>2, <1>4, <1>5, <1>6, <2>1 DEF AmountInv, TxInv
<1>8. WorkInv'
  <2>1. \A q \in Party \ {p} : pc'[q] = pc[q]
    BY <1>2 DEF Types
  <2>2. ASSUME NEW q \in Party
        PROVE  /\ session[q] \in Session \cup {0}
               /\ pc'[q] \in {"fetch", "sign", "post"} => session[q] \in Session
               /\ pc'[q] \in {"sign", "post"} => /\ 1 \in DOMAIN tx'[q].inputs
                                                 /\ FeeFits(tx'[q], Fee[session[q]])
    <3>1. CASE q = p
      BY <1>3, <1>4, <1>5, <1>6, <3>1 DEF fee
    <3>2. CASE q # p
      BY <1>6, <2>1, <3>2 DEF AmountInv, WorkInv
    <3>3. QED
      BY <3>1, <3>2
  <2>3. QED
    BY <1>2, <2>2 DEF WorkInv, FeeFits, Paid
<1>9. OfferInv'
  <2>1. /\ Share(p, session[p], 1, t).session \in Session
        /\ Share(p, session[p], 1, t).input \in DOMAIN Share(p, session[p], 1, t).tx.inputs
    BY <1>3, <1>4, <1>5 DEF Share
  <2>2. QED
    BY <1>5, <2>1 DEF AmountInv, OfferInv
<1>10. PaysInv' /\ LostInv'
  BY <1>2 DEF AmountInv, PaysInv, LostInv, FeeFits, Paid
<1>11. QED
  BY <1>7, <1>8, <1>9, <1>10 DEF AmountInv

LEMMA AmountSign == ASSUME IInv, AmountInv, NEW p \in Party, SignInput(p)  PROVE AmountInv'
<1>1. /\ pc[p] = "sign" /\ UNCHANGED <<session, tx, arrived, posted, lost>>
      /\ \/ /\ next[p] < Len(tx[p].inputs) /\ pc' = pc
            /\ offered' = offered \cup {Share(p, session[p], next[p] + 1, tx[p])}
         \/ pc' = [pc EXCEPT ![p] = "post"] /\ offered' = offered
  BY DEF SignInput
<1>2. WorkInv'
  <2>1. \A q \in Party : pc'[q] = pc[q] \/ (q = p /\ pc'[q] = "post")
    BY <1>1 DEF IInv, Types
  <2>2. QED
    BY <1>1, <2>1 DEF AmountInv, WorkInv, FeeFits, Paid
<1>3. OfferInv'
  <2> DEFINE r == Share(p, session[p], next[p] + 1, tx[p])
  <2>1. ASSUME next[p] < Len(tx[p].inputs)
        PROVE  r.session \in Session /\ r.input \in DOMAIN r.tx.inputs
    <3>1. session[p] \in Session
      BY <1>1 DEF AmountInv, WorkInv
    <3>2. next[p] \in Nat /\ tx[p].inputs \in Seq(Utxo)
      BY DEF IInv, Types, InputsInv
    <3>3. next[p] + 1 \in DOMAIN tx[p].inputs
      BY <2>1, <3>2
    <3>4. QED
      BY <3>1, <3>3 DEF Share
  <2> HIDE DEF r
  <2>2. QED
    BY <1>1, <2>1 DEF r, AmountInv, OfferInv
<1>4. TxInv' /\ PaysInv' /\ LostInv'
  BY <1>1 DEF AmountInv, TxInv, PaysInv, LostInv, FeeFits, Paid
<1>5. QED
  BY <1>2, <1>3, <1>4 DEF AmountInv

\* Broadcast or not: a call that ends leaves what it built and signed.
LEMMA AmountEnd ==
  ASSUME Types, AmountInv, NEW p \in Party,
         Fail(p) \/ PostRefused(p) \/ PostTx(p) \/ PostLost(p)
  PROVE  AmountInv'
<1>1. /\ UNCHANGED <<session, tx, offered, arrived>>
      /\ pc' = [pc EXCEPT ![p] = "failed"] \/ pc' = [pc EXCEPT ![p] = "done"]
  BY DEF Fail, PostRefused, PostTx, PostLost
<1>2. \/ UNCHANGED posted
      \/ /\ pc[p] = "post"
         /\ posted' \subseteq posted \cup {[session |-> session[p], tx |-> tx[p]]}
  BY DEF Fail, PostRefused, PostTx, PostLost, Enter
<1>3. lost' = lost \/ (lost < MaxLost /\ lost' = lost + 1)
  BY DEF Fail, PostRefused, PostTx, PostLost
<1>4. WorkInv'
  <2>1. \A q \in Party : pc'[q] = pc[q] \/ pc'[q] \in {"failed", "done"}
    BY <1>1 DEF Types
  <2>2. QED
    BY <1>1, <2>1 DEF AmountInv, WorkInv, FeeFits, Paid
<1>5. PaysInv'
  <2>1. ASSUME NEW r \in posted'
        PROVE  r.session \in Session /\ FeeFits(r.tx, Fee[r.session])
    <3>1. CASE r \in posted
      BY <3>1 DEF AmountInv, PaysInv
    <3>2. CASE pc[p] = "post" /\ r = [session |-> session[p], tx |-> tx[p]]
      BY <3>2 DEF AmountInv, WorkInv
    <3>3. QED
      BY <1>2, <2>1, <3>1, <3>2
  <2>2. QED
    BY <2>1 DEF PaysInv, FeeFits, Paid
<1>6. LostInv'
  BY <1>3, PaymentAssumption DEF AmountInv, LostInv
<1>7. TxInv' /\ OfferInv'
  BY <1>1 DEF AmountInv, TxInv, OfferInv
<1>8. QED
  BY <1>4, <1>5, <1>6, <1>7 DEF AmountInv

LEMMA AmountStep == IInv /\ AmountInv /\ [Next]_vars => AmountInv'
<1> SUFFICES ASSUME IInv, AmountInv, [Next]_vars  PROVE AmountInv'
  OBVIOUS
<1>1. Types
  BY DEF IInv
<1>2. CASE \E u \in Utxo : Arrive(u)
  BY <1>2, AmountArrive
<1>3. CASE \E p \in Party : Pay(p)
  BY <1>1, <1>3, AmountCall, AmountPrepare, AmountSign, AmountEnd DEF Pay
<1>4. CASE UNCHANGED vars
  BY <1>4 DEF vars, AmountInv, TxInv, WorkInv, OfferInv, PaysInv, LostInv, FeeFits, Paid
<1>5. QED
  BY <1>2, <1>3, <1>4 DEF Next

LEMMA AmountsHold == Spec => []AmountInv
BY AmountInit, AmountStep, Invariance, PTL DEF Spec

\* Every variable has its type, and no share is given for an input that its
\* transaction does not have.
THEOREM TypeCorrect == Spec => []TypeOK
<1>1. IInv /\ AmountInv => TypeOK
  BY DEF IInv, Types, ShareInv, AmountInv, TxInv, WorkInv, OfferInv, PaysInv, LostInv, TypeOK
<1>2. QED
  BY <1>1, Invariance, AmountsHold, PTL

\* For selections of any length, the miners get the fee of the session and at most
\* the dust on top.
THEOREM AgreedFeePaid == Spec => []FeeIsAgreed
<1>1. AmountInv => FeeIsAgreed
  BY DEF AmountInv, PaysInv, FeeFits, FeeIsAgreed
<1>2. QED
  BY <1>1, AmountsHold, PTL
-----------------------------------------------------------------------------
(* Payments and unanswered broadcasts *)

\* The transactions of the mempool, whichever session they come from.
Txs == {r.tx : r \in posted}

Answered == \E p \in Party : pc[p] = "done"

\* A party that has its answer sees its session's transaction stay in the mempool.
DoneInv == \A p \in Party : pc[p] = "done" => \E r \in posted : r.session = session[p]

\* One transaction for each lost answer, and one for the answer.
CountInv == /\ IsFiniteSet(Txs)
            /\ Cardinality(Txs) <= lost + IF Answered THEN 1 ELSE 0

LossInv == DoneInv /\ CountInv

\* Whoever is about to broadcast holds a share of everybody for its session: nobody
\* is in an earlier one, and nothing was broadcast by a later one.  What its own
\* session has broadcast is the same transaction.
LEMMA PosterIsLatest ==
  ASSUME IInv, OneOffer, NEW p \in Party, pc[p] = "post"
  PROVE  /\ \A q \in Party : session[p] <= session[q]
         /\ \A r \in posted : /\ r.session \in Nat /\ r.session <= session[p]
                              /\ r.session = session[p] => r.tx = tx[p]
<1>1. \A q \in Party : Share(q, session[p], 1, tx[p]) \in offered
  <2>1. 1 \in 1 .. (next[p] - 1)
    BY DEF IInv, Types, SignInv
  <2>2. QED
    BY <2>1 DEF IInv, SignInv
<1>2. ASSUME NEW q \in Party  PROVE session[p] <= session[q]
  <2>1. Share(q, session[p], 1, tx[p]) \in offered
    BY <1>1
  <2>2. QED
    BY <2>1 DEF IInv, ShareInv, Share
<1>3. ASSUME NEW r \in posted
      PROVE  /\ r.session \in Nat /\ r.session <= session[p]
             /\ r.session = session[p] => r.tx = tx[p]
  <2>1. Share(p, r.session, 1, r.tx) \in offered
    BY DEF IInv, PostInv
  <2>2. Share(p, session[p], 1, tx[p]) \in offered
    BY <1>1
  <2>3. r.session \in Nat /\ r.session <= session[p]
    BY <2>1 DEF IInv, ShareInv, Share
  <2>4. r.session = session[p] => r.tx = tx[p]
    BY <2>1, <2>2 DEF OneOffer, Share
  <2>5. QED
    BY <2>3, <2>4
<1>4. QED
  BY <1>2, <1>3

\* Once somebody has the answer, only the transaction of that session is broadcast.
LEMMA AnsweredIsLast ==
  ASSUME IInv, OneOffer, DoneInv, NEW p \in Party, pc[p] = "post",
         NEW d \in Party, pc[d] = "done"
  PROVE  /\ session[d] = session[p]
         /\ \E r \in posted : r.session = session[d] /\ r.tx = tx[p]
<1>1. PICK r \in posted : r.session = session[d]
  BY DEF DoneInv
<1>2. r.session <= session[p] /\ session[p] <= session[d]
  BY PosterIsLatest
<1>3. session[p] \in Nat /\ session[d] \in Nat
  BY DEF IInv, Types
<1>4. session[d] = session[p]
  BY <1>1, <1>2, <1>3
<1>5. QED
  BY <1>1, <1>4, PosterIsLatest

\* A broadcast that the mempool takes.
LEMMA EnterStep ==
  ASSUME IInv, OneOffer, LossInv, NEW p \in Party, pc[p] = "post",
         Enter(session[p], tx[p])
  PROVE  /\ \E r \in posted' : r.session = session[p]
         /\ \A d \in Party : pc[d] = "done" => \E r \in posted' : r.session = session[d]
         /\ IsFiniteSet(Txs')
         /\ Cardinality(Txs') <= Cardinality(Txs) + 1
         /\ Answered => Cardinality(Txs') <= Cardinality(Txs)
<1> DEFINE mine == [session |-> session[p], tx |-> tx[p]]
<1>1. mine \in posted' /\ posted' \subseteq posted \cup {mine}
  BY DEF Enter
<1>2. Txs' \subseteq Txs \cup {tx[p]}
  BY <1>1 DEF Txs
<1>3. /\ IsFiniteSet(Txs \cup {tx[p]}) /\ Cardinality(Txs) \in Nat
      /\ Cardinality(Txs \cup {tx[p]}) <= Cardinality(Txs) + 1
  <2>1. IsFiniteSet(Txs)
    BY DEF LossInv, CountInv
  <2>2. Cardinality(Txs) \in Nat
    BY <2>1, FS_CardinalityType
  <2>3. /\ IsFiniteSet(Txs \cup {tx[p]})
        /\ Cardinality(Txs \cup {tx[p]}) =
             IF tx[p] \in Txs THEN Cardinality(Txs) ELSE Cardinality(Txs) + 1
    BY <2>1, FS_AddElement
  <2>4. QED
    BY <2>2, <2>3
<1>4. /\ IsFiniteSet(Txs') /\ Cardinality(Txs') \in Nat
      /\ Cardinality(Txs') <= Cardinality(Txs \cup {tx[p]})
  BY <1>2, <1>3, FS_Subset, FS_CardinalityType
<1>5. Cardinality(Txs') <= Cardinality(Txs) + 1
  <2>1. Cardinality(Txs \cup {tx[p]}) \in Nat
    BY <1>3, FS_CardinalityType
  <2>2. QED
    BY <1>3, <1>4, <2>1
<1>6. ASSUME NEW d \in Party, pc[d] = "done"
      PROVE  /\ session[d] = session[p]
             /\ Cardinality(Txs') <= Cardinality(Txs)
  <2>1. session[d] = session[p] /\ \E r \in posted : r.tx = tx[p]
    BY <1>6, AnsweredIsLast DEF LossInv
  <2>2. tx[p] \in Txs
    BY <2>1 DEF Txs
  <2>3. Txs' \subseteq Txs
    BY <1>2, <2>2
  <2>4. Cardinality(Txs') <= Cardinality(Txs)
    BY <2>3, FS_Subset DEF LossInv, CountInv
  <2>5. QED
    BY <2>1, <2>4
<1>7. mine.session = session[p]
  OBVIOUS
<1>8. QED
  BY <1>1, <1>4, <1>5, <1>6, <1>7 DEF Answered

LEMMA LossInit == Init => LossInv
<1> SUFFICES ASSUME Init  PROVE LossInv
  OBVIOUS
<1>1. Txs = {} /\ lost = 0 /\ ~Answered
  BY DEF Init, Txs, Answered
<1>2. IsFiniteSet(Txs) /\ Cardinality(Txs) = 0
  BY <1>1, FS_EmptySet
<1>3. DoneInv
  BY DEF Init, DoneInv
<1>4. QED
  BY <1>1, <1>2, <1>3 DEF LossInv, CountInv

\* Calls that have an answer stay with it, and the others broadcast nothing.
LEMMA LossQuiet ==
  ASSUME Types, LossInv, UNCHANGED <<posted, lost>>,
         \A p \in Party : /\ pc[p] = "done" <=> pc'[p] = "done"
                          /\ pc[p] = "done" => session'[p] = session[p]
  PROVE  LossInv'
<1>1. Txs' = Txs /\ Answered' = Answered
  BY DEF Txs, Answered
<1>2. CountInv'
  BY <1>1 DEF LossInv, CountInv
<1>3. DoneInv'
  BY DEF LossInv, DoneInv
<1>4. QED
  BY <1>2, <1>3 DEF LossInv

\* An answer is the last word: it adds to the count what it adds to the mempool.
LEMMA LossPost ==
  ASSUME IInv, OneOffer, LossInv, lost \in Nat, NEW p \in Party, PostTx(p)
  PROVE  LossInv'
<1>1. /\ pc[p] = "post" /\ Enter(session[p], tx[p])
      /\ pc' = [pc EXCEPT ![p] = "done"] /\ UNCHANGED <<session, lost>>
  BY DEF PostTx
<1>2. /\ pc'[p] = "done" /\ \A q \in Party \ {p} : pc'[q] = pc[q]
  BY <1>1 DEF IInv, Types
<1>3. /\ \E r \in posted' : r.session = session[p]
      /\ \A d \in Party : pc[d] = "done" => \E r \in posted' : r.session = session[d]
      /\ IsFiniteSet(Txs') /\ Cardinality(Txs') <= Cardinality(Txs) + 1
      /\ Answered => Cardinality(Txs') <= Cardinality(Txs)
  BY <1>1, EnterStep
<1>4. DoneInv'
  BY <1>1, <1>2, <1>3 DEF DoneInv
<1>5. CountInv'
  <2>1. Answered'
    BY <1>2 DEF Answered
  <2>2. /\ Cardinality(Txs) <= lost + IF Answered THEN 1 ELSE 0
        /\ Cardinality(Txs) \in Nat /\ Cardinality(Txs') \in Nat
    BY <1>3, FS_CardinalityType DEF LossInv, CountInv
  <2>3. Cardinality(Txs') <= lost + 1
    BY <1>3, <2>2
  <2>4. QED
    BY <1>1, <1>3, <2>1, <2>3 DEF CountInv
<1>6. QED
  BY <1>4, <1>5 DEF LossInv

\* A lost answer may hide one more transaction, and is counted.
LEMMA LossLost ==
  ASSUME IInv, OneOffer, LossInv, lost \in Nat, NEW p \in Party, PostLost(p)
  PROVE  LossInv'
<1>1. /\ pc[p] = "post"
      /\ Enter(session[p], tx[p]) \/ UNCHANGED posted
      /\ pc' = [pc EXCEPT ![p] = "failed"] /\ UNCHANGED session /\ lost' = lost + 1
  BY DEF PostLost
<1>2. \A q \in Party : pc'[q] = "done" <=> pc[q] = "done"
  BY <1>1 DEF IInv, Types
<1>3. Answered' = Answered
  BY <1>2 DEF Answered
<1>4. CASE UNCHANGED posted
  <2>1. Txs' = Txs
    BY <1>4 DEF Txs
  <2>2. Cardinality(Txs) \in Nat
    BY FS_CardinalityType DEF LossInv, CountInv
  <2>3. CountInv'
    BY <1>1, <1>3, <2>1, <2>2 DEF LossInv, CountInv
  <2>4. DoneInv'
    BY <1>1, <1>2, <1>4 DEF LossInv, DoneInv
  <2>5. QED
    BY <2>3, <2>4 DEF LossInv
<1>5. CASE Enter(session[p], tx[p])
  <2>1. /\ \E r \in posted' : r.session = session[p]
        /\ \A d \in Party : pc[d] = "done" => \E r \in posted' : r.session = session[d]
        /\ IsFiniteSet(Txs') /\ Cardinality(Txs') <= Cardinality(Txs) + 1
        /\ Answered => Cardinality(Txs') <= Cardinality(Txs)
    BY <1>1, <1>5, EnterStep
  <2>2. DoneInv'
    BY <1>1, <1>2, <2>1 DEF DoneInv
  <2>3. /\ Cardinality(Txs) <= lost + IF Answered THEN 1 ELSE 0
        /\ Cardinality(Txs) \in Nat /\ Cardinality(Txs') \in Nat
    BY <2>1, FS_CardinalityType DEF LossInv, CountInv
  <2>4. Cardinality(Txs') <= lost' + IF Answered THEN 1 ELSE 0
    BY <1>1, <2>1, <2>3
  <2>5. QED
    BY <1>3, <2>1, <2>2, <2>4 DEF LossInv, CountInv
<1>6. QED
  BY <1>1, <1>4, <1>5

LEMMA LossStep == IInv /\ OneOffer /\ AmountInv /\ LossInv /\ [Next]_vars => LossInv'
<1> SUFFICES ASSUME IInv, OneOffer, AmountInv, LossInv, [Next]_vars  PROVE LossInv'
  OBVIOUS
<1>1. Types /\ lost \in Nat
  BY PaymentAssumption DEF IInv, AmountInv, LostInv
<1>2. CASE \E p \in Party : PostTx(p) \/ PostLost(p)
  BY <1>1, <1>2, LossPost, LossLost
<1>3. CASE UNCHANGED vars \/ \E u \in Utxo : Arrive(u)
  BY <1>1, <1>3, LossQuiet DEF vars, Arrive
<1>4. ASSUME NEW p \in Party,
             Call(p) \/ Prepare(p) \/ SignInput(p) \/ Fail(p) \/ PostRefused(p)
      PROVE  LossInv'
  <2>1. /\ UNCHANGED <<posted, lost>> /\ pc[p] # "done"
        /\ session' = session \/ \E s \in Session : session' = [session EXCEPT ![p] = s]
        /\ \E c \in {"fetch", "sign", "post", "failed"} : pc' = [pc EXCEPT ![p] = c]
    <3>1. CASE SignInput(p)
      <4>1. pc' = [pc EXCEPT ![p] = "sign"] \/ pc' = [pc EXCEPT ![p] = "post"]
        BY <1>1, <3>1 DEF SignInput, Types
      <4>2. QED
        BY <3>1, <4>1 DEF SignInput
    <3>2. CASE Call(p) \/ Prepare(p) \/ Fail(p) \/ PostRefused(p)
      BY <3>2 DEF Call, Prepare, Fail, PostRefused
    <3>3. QED
      BY <1>4, <3>1, <3>2
  <2>2. \A q \in Party : /\ pc[q] = "done" <=> pc'[q] = "done"
                         /\ pc[q] = "done" => session'[q] = session[q]
    BY <1>1, <2>1 DEF Types
  <2>3. QED
    BY <1>1, <2>1, <2>2, LossQuiet
<1>5. QED
  BY <1>2, <1>3, <1>4 DEF Next, Pay

\* However often the callers try again, each further transaction to the receiver takes
\* a broadcast without an answer: after an answer no session can gather the shares of
\* all again, for the party that has it does not take part.
THEOREM PaidOncePerLoss == Spec => []EachLossPaysOnce
<1>1. AmountInv /\ LossInv => EachLossPaysOnce
  <2> SUFFICES ASSUME AmountInv, LossInv  PROVE EachLossPaysOnce
    OBVIOUS
  <2>1. lost \in Nat /\ Cardinality(Txs) \in Nat
    BY PaymentAssumption, FS_CardinalityType DEF AmountInv, LostInv, LossInv, CountInv
  <2>2. Cardinality(Txs) <= 1 + lost
    BY <2>1 DEF LossInv, CountInv
  <2>3. QED
    BY <2>2 DEF EachLossPaysOnce, Txs
<1>2. QED
  BY <1>1, LossInit, LossStep, Invariance, OneOfferHolds, AmountsHold, PTL DEF Spec
================================================================================
