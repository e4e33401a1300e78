-------------------------------- MODULE Payment --------------------------------
(***************************************************************************)
(* runNostrMpcSendBTCInternal after the pre-agreement: each signer fetches *)
(* the outputs of the address, builds the transaction by itself, signs it  *)
(* input by input in sessions of the whole committee, and broadcasts it.   *)
(* MpcSendBTC is the same with a session id and a fee from its caller.     *)
(*                                                                         *)
(* From PreAgreement it takes what it promises: the parties of a session   *)
(* have the same fee, and no party is in a session twice.  From MpcSession *)
(* that a signature needs the share of every party for the same hash.      *)
(* Change returns to the address as an output that is not spent again here.*)
(***************************************************************************)
EXTENDS Integers, FiniteSets, SequencesExt

CONSTANTS Party,
          Utxo, Value,    \* outputs the address may have, and their values
          Amount,         \* amountSatoshi
          Session, Fee,   \* session ids, in order of time, and their agreed fees
          Dust,           \* 546
          MaxLost         \* bound on broadcasts that get no answer

ASSUME PaymentAssumption == /\ IsFiniteSet(Utxo) /\ Value \in [Utxo -> Nat] /\ Amount \in Nat
                            /\ Session \subseteq Nat \ {0} /\ Fee \in [Session -> Nat]
                            /\ Dust \in Nat /\ MaxLost \in Nat

VARIABLES
  pc,        \* where the call of a party stands
  session,   \* its session; 0 before its first call
  tx,        \* the transaction it has built
  next,      \* the input it is signing
  offered,   \* signing shares: who takes part for which input of what
  arrived,   \* outputs that have been paid to the address
  posted,    \* transactions in the mempool, with the session that signed them
  lost       \* broadcasts without an answer

vars == <<pc, session, tx, next, offered, arrived, posted, lost>>

NoTx == [inputs |-> <<>>, change |-> 0]

\* The values of a sequence of outputs, added up from left to right.
Total(us) == LET sum[i \in 0 .. Len(us)] == IF i = 0 THEN 0 ELSE sum[i - 1] + Value[us[i]]
             IN  sum[Len(us)]

\* What the network takes as the fee of a transaction.
Paid(t) == Total(t.inputs) - Amount - t.change

Init == /\ pc = [p \in Party |-> "idle"]
        /\ session = [p \in Party |-> 0]
        /\ tx = [p \in Party |-> NoTx]
        /\ next = [p \in Party |-> 0]
        /\ offered = {}
        /\ arrived \in SUBSET Utxo
        /\ posted = {}
        /\ lost = 0

-----------------------------------------------------------------------------
(* The explorer *)

\* Somebody pays to the address.
Arrive(u) == /\ u \notin arrived
             /\ arrived' = arrived \cup {u}
             /\ UNCHANGED <<pc, session, tx, next, offered, posted, lost>>

Spent == UNION {ToSet(r.tx.inputs) : r \in posted}

Conflicts(t) == {r \in posted : r.tx # t /\ ToSet(r.tx.inputs) \cap ToSet(t.inputs) # {}}

\* The inputs opt in to replacement by a transaction with a higher fee.
Takes(t) == \A r \in Conflicts(t) : Paid(r.tx) < Paid(t)

Enter(s, t) == posted' = (posted \ Conflicts(t)) \cup {[session |-> s, tx |-> t]}

\* A known transaction, or one in conflict with another, may be refused.
MayRefuse(t) == ToSet(t.inputs) \cap Spent # {}

-----------------------------------------------------------------------------
(* A payment *)

\* The call, and its pre-agreement.  The caller pays again when it has failed.
Call(p) ==
  /\ pc[p] \in {"idle", "failed"}
  /\ \E s \in Session : s > session[p] /\ session' = [session EXCEPT ![p] = s]
  /\ pc' = [pc EXCEPT ![p] = "fetch"]
  /\ UNCHANGED <<tx, next, offered, arrived, posted, lost>>

\* FetchUTXOs returns them in any order, which decides between equal values.
Ordered(us) == {s \in SetToSeqs(us) : IsSorted(s, LAMBDA u, v : Value[u] <= Value[v])}

\* The loop of SelectUTXOs stops as soon as the selection is enough.
JustEnough(us, need) ==
  {s \in Seq(us) : Total(s) >= need /\ (Len(s) > 1 => Total(Front(s)) < need)}

Selections(us, need) ==
  {SubSeq(s, 1, n) : s \in Ordered(us), n \in 1 .. Cardinality(us)} \cap JustEnough(us, need)

\* Mutant: the fee is not subtracted.
ChangeWithoutFee(us, fee) == LET change == Total(us) - Amount
                             IN  IF change > Dust THEN change ELSE 0

\* No output for dust.
Change(us, fee) == LET change == Total(us) - Amount - fee
                   IN  IF change > Dust THEN change ELSE 0

Share(p, s, i, t) == [party |-> p, session |-> s, input |-> i, tx |-> t]

\* SIGHASH_ALL: the share for an input is one for the whole transaction.
Prepare(p) ==
  /\ pc[p] = "fetch"
  /\ \E us \in Selections(arrived \ Spent, Amount + Fee[session[p]]) :
       LET t == [inputs |-> us, change |-> Change(us, Fee[session[p]])]
       IN  /\ tx' = [tx EXCEPT ![p] = t]
           /\ offered' = offered \cup {Share(p, session[p], 1, t)}
  /\ next' = [next EXCEPT ![p] = 1]
  /\ pc' = [pc EXCEPT ![p] = "sign"]
  /\ UNCHANGED <<session, arrived, posted, lost>>

\* Mutant: the parties of a keysign do not compare what they sign.
SignableAnything(p) == \A q \in Party : \E r \in offered :
  r.party = q /\ r.session = session[p] /\ r.input = next[p]

\* Mutant: the signing sessions of a payment are not distinguished by input.
SignableOnce(p) == \A q \in Party : Share(q, session[p], 1, tx[p]) \in offered

\* The keysign of this input, with this hash, has every party's share.
Signable(p) == \A q \in Party : Share(q, session[p], next[p], tx[p]) \in offered

\* Mutant: one signature too many.
SignTooMany(p) ==
  /\ pc[p] = "sign" /\ Signable(p)
  /\ next' = [next EXCEPT ![p] = @ + 1]
  /\ IF next[p] <= Len(tx[p].inputs)
       THEN offered' = offered \cup {Share(p, session[p], next[p] + 1, tx[p])} /\ UNCHANGED pc
       ELSE pc' = [pc EXCEPT ![p] = "post"] /\ UNCHANGED offered
  /\ UNCHANGED <<session, tx, arrived, posted, lost>>

SignInput(p) ==
  /\ pc[p] = "sign" /\ Signable(p)
  /\ next' = [next EXCEPT ![p] = @ + 1]
  /\ IF next[p] < Len(tx[p].inputs)
       THEN offered' = offered \cup {Share(p, session[p], next[p] + 1, tx[p])} /\ UNCHANGED pc
       ELSE pc' = [pc EXCEPT ![p] = "post"] /\ UNCHANGED offered
  /\ UNCHANGED <<session, tx, arrived, posted, lost>>

\* Not enough funds, a request that fails, an input that cannot be signed, or
\* a keysign that ends with an error.
Fail(p) ==
  /\ pc[p] \in {"fetch", "sign"}
  /\ pc' = [pc EXCEPT ![p] = "failed"]
  /\ UNCHANGED <<session, tx, next, offered, arrived, posted, lost>>

PostTx(p) ==
  /\ pc[p] = "post" /\ Takes(tx[p])
  /\ Enter(session[p], tx[p])
  /\ pc' = [pc EXCEPT ![p] = "done"]
  /\ UNCHANGED <<session, tx, next, offered, arrived, lost>>

PostRefused(p) ==
  /\ pc[p] = "post" /\ MayRefuse(tx[p])
  /\ pc' = [pc EXCEPT ![p] = "failed"]
  /\ UNCHANGED <<session, tx, next, offered, arrived, posted, lost>>

\* The request or its answer is lost.
PostLost(p) ==
  /\ pc[p] = "post" /\ lost < MaxLost
  /\ lost' = lost + 1
  /\ (Takes(tx[p]) /\ Enter(session[p], tx[p])) \/ UNCHANGED posted
  /\ pc' = [pc EXCEPT ![p] = "failed"]
  /\ UNCHANGED <<session, tx, next, offered, arrived>>

Pay(p) == Call(p) \/ Prepare(p) \/ SignInput(p) \/ Fail(p)
          \/ PostTx(p) \/ PostRefused(p) \/ PostLost(p)

Next == (\E u \in Utxo : Arrive(u)) \/ (\E p \in Party : Pay(p))

Spec == Init /\ [][Next]_vars

-----------------------------------------------------------------------------
(* Properties *)

\* Each variable stays in its type; no share is given for an input that the
\* transaction does not have.
TypeOK ==
  /\ pc \in [Party -> {"idle", "fetch", "sign", "post", "done", "failed"}]
  /\ session \in [Party -> Session \cup {0}]
  /\ next \in [Party -> Nat]
  /\ \A p \in Party : tx[p].inputs \in Seq(arrived) /\ tx[p].change \in Nat
  /\ \A r \in offered : /\ r.party \in Party /\ r.session \in Session
                        /\ r.input \in DOMAIN r.tx.inputs
  /\ \A r \in posted : r.session \in Session
  /\ lost \in 0 .. MaxLost

\* What is broadcast was signed input by input by every party, as one and the same
\* transaction: nothing enters the mempool with a share given for something else.
SignedByAll ==
  \A r \in posted : \A q \in Party : \A i \in DOMAIN r.tx.inputs :
    Share(q, r.session, i, r.tx) \in offered

\* Two signers of a session who see different outputs, or sort equal ones
\* differently, never broadcast two transactions.
OneTransaction == \A r1, r2 \in posted : r1.session = r2.session => r1.tx = r2.tx

\* The miners get the agreed fee and at most the dust that is not worth an output.
FeeIsAgreed == \A r \in posted :
  Paid(r.tx) >= Fee[r.session] /\ Paid(r.tx) <= Fee[r.session] + Dust

\* A second payment to the receiver, though the callers try again, takes a broadcast
\* without an answer: refusing the transaction to the second signer does not.
EachLossPaysOnce == Cardinality({r.tx : r \in posted}) <= 1 + lost
================================================================================
