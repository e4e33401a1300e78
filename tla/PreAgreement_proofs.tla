-------------------------- MODULE PreAgreement_proofs --------------------------
(***************************************************************************)
(* When callers wait long enough between two attempts, two calls of the    *)
(* pre-agreement that both succeeded have agreed.                          *)
(*                                                                         *)
(* The argument: what p hears was made at most Lookback before p's attempt *)
(* began.  A message of an attempt that q has given up is RetryGap older   *)
(* than q's present attempt.  Had p heard one, q's attempt would have      *)
(* begun so late that nothing p may have sent could still reach it.        *)
(* ListenInv says that p does hear what q publishes while p listens.       *)
(***************************************************************************)
EXTENDS PreAgreement, TLAPS

\* The wait the argument needs, four minutes with the constants of the code.
PatientCallers == RetryGap >= 2 * Lookback + Timeout

Active(p) == pc[p] \in {"send", "wait"}

TypeInv ==
  /\ now \in Nat
  /\ pc \in [Party -> {"idle", "send", "wait", "ok", "error"}]
  /\ attempt \in [Party -> Nat]
  /\ began \in [Party -> Nat]
  /\ ended \in [Party -> Nat]
  /\ stored \in SUBSET Stored
  /\ listening \in [Party -> BOOLEAN]
  /\ since \in [Party -> Int]
  /\ pending \in [Party -> SUBSET Stored]
  /\ inbox \in [Party -> SUBSET Message]
  /\ result \in [Party -> {NoResult} \cup {Result(m, n) : m \in Message, n \in Message}]

\* Attempts are numbered from 1 and began in the past; nothing is streamed to a
\* call that is over.
CallInv ==
  \A p \in Party :
    /\ began[p] <= now
    /\ attempt[p] <= MaxAttempts[p]
    /\ pc[p] = "idle" <=> attempt[p] = 0
    /\ ~Active(p) => ~listening[p] /\ pending[p] = {}

\* When the messages of a party can have been made.
SentInv ==
  \A w \in stored :
    LET p == w.msg.from
        n == w.msg.nonce
    IN  /\ n \in 1 .. attempt[p]
        /\ w.at <= now
        /\ n = attempt[p] => w.at <= began[p] + Timeout
        /\ n < attempt[p] => w.at + RetryGap < began[p]
        /\ pc[p] \in {"ok", "error"} => w.at <= ended[p]

\* What a party hears: messages its peer made not long before the attempt began.
Audible(p, w) == w \in stored /\ w.msg.from = Peer(p) /\ w.at >= began[p] - Lookback
HeardInv ==
  \A p \in Party :
    /\ \A w \in pending[p] : Audible(p, w)
    /\ \A m \in inbox[p] : \E w \in stored : w.msg = m /\ Audible(p, w)
    /\ pc[p] = "ok" => \E m \in inbox[p] : result[p] = Result(Own(p), m)

IInv == TypeInv /\ CallInv /\ SentInv /\ HeardInv
-----------------------------------------------------------------------------
(* The two parties *)

\* Peer is an involution without fixed points, and a party has one peer.
LEMMA PeerFacts ==
  ASSUME NEW p \in Party
  PROVE  /\ Peer(p) \in Party /\ Peer(p) # p /\ Peer(Peer(p)) = p
         /\ \A q \in Party : q # p => q = Peer(p)
<1>1. PICK a \in Party, b \in Party : a # b /\ Party = {a, b}
  BY AgreementAssumption
<1>2. \A q \in Party : \E r \in Party : r # q
  BY <1>1
<1>3. \A q \in Party : Peer(q) \in Party /\ Peer(q) # q
  BY <1>2 DEF Peer
<1>4. Peer(Peer(p)) \in {a, b} /\ Peer(p) \in {a, b} /\ p \in {a, b}
  BY <1>1, <1>3
<1> QED
  BY <1>1, <1>3, <1>4

\* The order of the two messages does not matter to the result.
LEMMA ResultCommutes ==
  ASSUME NEW x \in Message, NEW y \in Message,
         x.nonce \in 1 .. MaxAttempts[x.from], y.nonce \in 1 .. MaxAttempts[y.from]
  PROVE  Result(x, y) = Result(y, x)
<1>1. FeeOf(x) \in Nat /\ FeeOf(y) \in Nat
  BY AgreementAssumption DEF FeeOf, Message
<1>2. FeeOf(x) + FeeOf(y) = FeeOf(y) + FeeOf(x)
  BY <1>1
<1>3. {x, y} = {y, x}
  OBVIOUS
<1> QED
  BY <1>2, <1>3 DEF Result
-----------------------------------------------------------------------------
(* Agreement follows from the invariant *)

\* A party that heard a message and whose peer heard one of its own heard the
\* message of the peer's present attempt.
LEMMA HeardIsCurrent ==
  ASSUME PatientCallers, TypeInv, CallInv, SentInv,
         NEW p \in Party, NEW v \in stored, Audible(p, v),
         NEW w \in stored, Audible(Peer(p), w)
  PROVE  v.msg = Own(Peer(p))
<1> DEFINE q == Peer(p)
<1>1. q \in Party /\ Peer(q) = p
  BY PeerFacts
<1>2. v \in Stored /\ w \in Stored /\ v.at \in Nat /\ w.at \in Nat
  BY DEF TypeInv, Stored
<1>3. v.msg.from = q /\ w.msg.from = p /\ v.at >= began[p] - Lookback /\ w.at >= began[q] - Lookback
  BY <1>1 DEF Audible
<1>4. /\ began[p] \in Nat /\ began[q] \in Nat /\ attempt[q] \in Nat /\ attempt[p] \in Nat
      /\ {Timeout, Lookback, RetryGap} \subseteq Nat
  BY <1>1, AgreementAssumption DEF TypeInv
<1>5. w.at <= began[p] + Timeout
  <2>1. w.msg.nonce = attempt[p] => w.at <= began[p] + Timeout
    BY <1>3 DEF SentInv
  <2>2. w.msg.nonce < attempt[p] => w.at + RetryGap < began[p]
    BY <1>3 DEF SentInv
  <2>3. w.msg.nonce \in 1 .. attempt[p]
    BY <1>3 DEF SentInv
  <2> QED
    BY <2>1, <2>2, <2>3, <1>2, <1>4
<1>6. ~(v.msg.nonce < attempt[q])
  <2>1. SUFFICES ASSUME v.at + RetryGap < began[q]  PROVE FALSE
    BY <1>3 DEF SentInv
  <2> QED
    BY <2>1, <1>2, <1>3, <1>4, <1>5 DEF PatientCallers
<1>7. v.msg.nonce = attempt[q]
  <2>1. v.msg.nonce \in 1 .. attempt[q]
    BY <1>3 DEF SentInv
  <2> QED
    BY <2>1, <1>6, <1>4
<1>8. v.msg \in Message
  BY <1>2 DEF Stored
<1> QED
  BY <1>3, <1>7, <1>8 DEF Own, Message

\* A party that has begun has a message of its own.
LEMMA OwnType ==
  ASSUME TypeInv, CallInv, NEW p \in Party, pc[p] # "idle"
  PROVE  Own(p) \in Message /\ Own(p).from = p /\ Own(p).nonce \in 1 .. MaxAttempts[p]
<1>1. attempt[p] \in Nat
  BY DEF TypeInv
<1>2. MaxAttempts[p] \in Nat
  BY AgreementAssumption
<1>3. attempt[p] # 0 /\ attempt[p] <= MaxAttempts[p]
  BY DEF CallInv
<1>4. attempt[p] \in 1 .. MaxAttempts[p]
  BY <1>1, <1>2, <1>3
<1> QED
  BY <1>1, <1>4 DEF Own, Message

\* Both results are made of the same two messages.
LEMMA InvAgreement ==
  ASSUME PatientCallers, IInv PROVE Agreement
<1> SUFFICES ASSUME NEW p \in Party, NEW q \in Party, pc[p] = "ok", pc[q] = "ok"
             PROVE  result[p] = result[q]
  BY DEF Agreement
<1>1. CASE p = q
  BY <1>1
<1>2. CASE p # q
  <2>1. q = Peer(p) /\ p = Peer(q)
    BY <1>2, PeerFacts
  <2>2. PICK m \in inbox[p] : result[p] = Result(Own(p), m)
    BY DEF IInv, HeardInv
  <2>3. PICK n \in inbox[q] : result[q] = Result(Own(q), n)
    BY DEF IInv, HeardInv
  <2>4. PICK v \in stored : v.msg = m /\ Audible(p, v)
    BY <2>2 DEF IInv, HeardInv
  <2>5. PICK w \in stored : w.msg = n /\ Audible(q, w)
    BY <2>3 DEF IInv, HeardInv
  <2>6. m = Own(q) /\ n = Own(p)
    BY <2>1, <2>4, <2>5, HeardIsCurrent DEF IInv
  <2>7. /\ Own(p) \in Message /\ Own(p).from = p /\ Own(p).nonce \in 1 .. MaxAttempts[p]
        /\ Own(q) \in Message /\ Own(q).from = q /\ Own(q).nonce \in 1 .. MaxAttempts[q]
    <3>1. TypeInv /\ CallInv /\ pc[p] # "idle" /\ pc[q] # "idle"
      BY DEF IInv
    <3> QED
      BY <3>1, OwnType
  <2> QED
    BY <2>2, <2>3, <2>6, <2>7, ResultCommutes
<1> QED
  BY <1>1, <1>2
-----------------------------------------------------------------------------
(* The invariant is inductive *)

\* It holds initially.
LEMMA InitIInv == Init => IInv
<1> SUFFICES ASSUME Init PROVE IInv
  OBVIOUS
<1>1. TypeInv
  BY DEF Init, TypeInv
<1>2. CallInv
  BY AgreementAssumption DEF Init, CallInv, Active
<1>3. SentInv /\ HeardInv
  BY DEF Init, SentInv, HeardInv
<1> QED
  BY <1>1, <1>2, <1>3 DEF IInv

\* The clock only moves away from what was made.
LEMMA TickStep == IInv /\ Tick => IInv'
<1> SUFFICES ASSUME IInv, Tick PROVE IInv'
  OBVIOUS
<1> USE DEF IInv
<1>1. /\ now \in Nat /\ now' = now + 1
      /\ UNCHANGED <<pc, attempt, began, ended, stored, listening, since, pending, inbox, result>>
  BY DEF Tick, pumpVars, TypeInv
<1>2. TypeInv'
  BY <1>1 DEF TypeInv
<1>3. CallInv'
  BY <1>1 DEF CallInv, Active, TypeInv
<1>4. SentInv'
  BY <1>1 DEF SentInv, TypeInv, Stored
<1>5. HeardInv'
  BY <1>1 DEF HeardInv, Audible, Own
<1> QED
  BY <1>2, <1>3, <1>4, <1>5

\* A new attempt makes the messages of the one before old, by the caller's wait.
LEMMA BeginStep ==
  ASSUME IInv, NEW p \in Party, Begin(p) PROVE IInv'
<1> USE DEF IInv
<1>1. /\ attempt' = [attempt EXCEPT ![p] = @ + 1]
      /\ began' = [began EXCEPT ![p] = now]
      /\ inbox' = [inbox EXCEPT ![p] = {}]
      /\ result' = [result EXCEPT ![p] = NoResult]
      /\ UNCHANGED <<now, stored, listening, since, pending>>
      /\ attempt[p] < MaxAttempts[p]
      /\ MayBegin(p)
  BY DEF Begin
<1>2. \/ pc' = [pc EXCEPT ![p] = "send"] /\ UNCHANGED ended
      \/ pc' = [pc EXCEPT ![p] = "error"] /\ ended' = [ended EXCEPT ![p] = now]
  BY DEF Begin
<1>3. TypeInv'
  BY <1>1, <1>2 DEF TypeInv
<1>4. CallInv'
  <2> SUFFICES ASSUME NEW q \in Party
               PROVE  /\ began'[q] <= now
                      /\ attempt'[q] <= MaxAttempts[q]
                      /\ pc'[q] = "idle" <=> attempt'[q] = 0
                      /\ ~Active(q)' => ~listening[q] /\ pending[q] = {}
    BY <1>1 DEF CallInv
  <2>1. CASE q # p
    BY <2>1, <1>1, <1>2 DEF CallInv, Active, TypeInv
  <2>2. CASE q = p
    <3>1. pc'[p] # "idle" /\ began'[p] = now /\ attempt'[p] = attempt[p] + 1
      BY <1>1, <1>2 DEF TypeInv
    <3>2. ~listening[p] /\ pending[p] = {}
      BY <1>1 DEF MayBegin, CallInv, Active
    <3>3. attempt[p] \in Nat /\ MaxAttempts[p] \in Nat /\ now \in Nat
      BY AgreementAssumption DEF TypeInv
    <3> QED
      BY <2>2, <3>1, <3>2, <3>3, <1>1
  <2> QED
    BY <2>1, <2>2
<1>5. SentInv'
  <2> SUFFICES ASSUME NEW w \in stored
               PROVE  LET q == w.msg.from
                          n == w.msg.nonce
                      IN  /\ n \in 1 .. attempt'[q]
                          /\ w.at <= now
                          /\ n = attempt'[q] => w.at <= began'[q] + Timeout
                          /\ n < attempt'[q] => w.at + RetryGap < began'[q]
                          /\ pc'[q] \in {"ok", "error"} => w.at <= ended'[q]
    BY <1>1 DEF SentInv
  <2> DEFINE q == w.msg.from
             n == w.msg.nonce
  <2>0. q \in Party /\ n \in Nat /\ w.at \in Nat
    BY DEF TypeInv, Stored, Message
  <2>1. CASE q # p
    BY <2>0, <2>1, <1>1, <1>2 DEF SentInv, TypeInv
  <2>2. CASE q = p
    <3>1. n \in 1 .. attempt[p] /\ w.at <= now /\ (pc[p] \in {"ok", "error"} => w.at <= ended[p])
      BY <2>2 DEF SentInv
    <3>2. pc[p] \in {"ok", "error"} /\ now > ended[p] + RetryGap
      BY <1>1, <2>2, <3>1 DEF MayBegin, CallInv, TypeInv
    <3>3. {now, ended[p], RetryGap, attempt[p]} \subseteq Nat
      BY AgreementAssumption DEF TypeInv
    <3>4. n < attempt'[p] /\ n \in 1 .. attempt'[p] /\ began'[p] = now
      BY <3>1, <3>3, <1>1, <2>0 DEF TypeInv
    <3>5. w.at + RetryGap < now
      BY <3>1, <3>2, <3>3, <2>0
    <3>6. pc'[p] \in {"ok", "error"} => ended'[p] = now
      BY <1>2 DEF TypeInv
    <3> QED
      BY <3>1, <3>3, <3>4, <3>5, <3>6, <2>0, <2>2
  <2> QED
    BY <2>1, <2>2
<1>6. HeardInv'
  <2> SUFFICES ASSUME NEW q \in Party
               PROVE  /\ \A w \in pending[q] : Audible(q, w)'
                      /\ \A m \in inbox'[q] : \E w \in stored : w.msg = m /\ Audible(q, w)'
                      /\ pc'[q] = "ok" => \E m \in inbox'[q] : result'[q] = Result(Own(q)', m)
    BY <1>1 DEF HeardInv
  <2>1. CASE q # p
    BY <2>1, <1>1, <1>2 DEF HeardInv, Audible, Own, TypeInv
  <2>2. CASE q = p
    <3>1. pending[p] = {} /\ inbox'[p] = {} /\ pc'[p] # "ok"
      BY <1>1, <1>2 DEF MayBegin, CallInv, Active, TypeInv
    <3> QED
      BY <2>2, <3>1
  <2> QED
    BY <2>1, <2>2
<1> QED
  BY <1>3, <1>4, <1>5, <1>6

\* A subscription starts at most Lookback before the attempt.
LEMMA ListenStep ==
  ASSUME IInv, NEW p \in Party, Listen(p) PROVE IInv'
<1> USE DEF IInv
<1>1. /\ Active(p)
      /\ listening' = [listening EXCEPT ![p] = TRUE]
      /\ since' = [since EXCEPT ![p] = now - Lookback]
      /\ pending' = [pending EXCEPT ![p] = Matching(p)]
      /\ UNCHANGED <<now, pc, attempt, began, ended, stored, inbox, result>>
  BY DEF Listen, Active
<1>2. Matching(p) \subseteq stored
  BY DEF Matching
<1>3. TypeInv'
  BY <1>1, <1>2, AgreementAssumption DEF TypeInv
<1>4. CallInv'
  BY <1>1 DEF CallInv, Active, TypeInv
<1>5. SentInv'
  BY <1>1 DEF SentInv
<1>6. \A w \in Matching(p) : Audible(p, w)
  <2> SUFFICES ASSUME NEW w \in Matching(p) PROVE w.at >= began[p] - Lookback
    BY DEF Matching, Audible
  <2>1. w.at \in Nat /\ now \in Nat /\ began[p] \in Nat /\ Lookback \in Nat
    BY <1>2, AgreementAssumption DEF TypeInv, Stored
  <2>2. w.at >= now - Lookback /\ began[p] <= now
    BY DEF Matching, CallInv
  <2> QED
    BY <2>1, <2>2
<1>7. HeardInv'
  BY <1>1, <1>6 DEF HeardInv, Audible, Own, TypeInv
<1> QED
  BY <1>3, <1>4, <1>5, <1>7

\* A message is made in time, and its maker's attempt is the present one.
LEMMA SendStep ==
  ASSUME IInv, NEW p \in Party, Send(p) PROVE IInv'
<1>0. PICK w : w = [msg |-> Own(p), at |-> now]
  OBVIOUS
<1> USE DEF IInv
<1>1. /\ pc[p] = "send" /\ now <= began[p] + Timeout
      /\ stored' = stored \cup {w}
      /\ pending' = IF listening[Peer(p)]
                      THEN [pending EXCEPT ![Peer(p)] = @ \cup {w}] ELSE pending
      /\ pc' = [pc EXCEPT ![p] = "wait"] \/ UNCHANGED pc
      /\ UNCHANGED <<now, attempt, began, ended, listening, since, inbox, result>>
  BY <1>0 DEF Send
<1>2. Peer(p) \in Party /\ Peer(Peer(p)) = p /\ Peer(p) # p
  BY PeerFacts
<1>3. w \in Stored /\ Own(p) \in Message /\ Own(p).from = p /\ Own(p).nonce = attempt[p]
  BY <1>0 DEF TypeInv, Stored, Message, Own
<1>4. TypeInv'
  BY <1>1, <1>2, <1>3 DEF TypeInv
<1>5. \A q \in Party : Active(q)' <=> Active(q)
  BY <1>1 DEF Active, TypeInv
<1>6. CallInv'
  <2>1. \A q \in Party : pc'[q] = "idle" <=> pc[q] = "idle"
    BY <1>1 DEF TypeInv
  <2>2. \A q \in Party : ~listening[q] => pending'[q] = pending[q]
    BY <1>1, <1>2 DEF TypeInv
  <2> QED
    BY <1>1, <1>5, <2>1, <2>2 DEF CallInv
<1>7. SentInv'
  <2> SUFFICES ASSUME NEW v \in stored'
               PROVE  LET q == v.msg.from
                          n == v.msg.nonce
                      IN  /\ n \in 1 .. attempt[q]
                          /\ v.at <= now
                          /\ n = attempt[q] => v.at <= began[q] + Timeout
                          /\ n < attempt[q] => v.at + RetryGap < began[q]
                          /\ pc'[q] \in {"ok", "error"} => v.at <= ended[q]
    BY <1>1 DEF SentInv
  <2>1. \A q \in Party : pc'[q] \in {"ok", "error"} => pc[q] \in {"ok", "error"}
    BY <1>1 DEF TypeInv
  <2>2. CASE v \in stored
    <3>1. v.msg.from \in Party
      BY <2>2 DEF TypeInv, Stored, Message
    <3> QED
      BY <2>1, <2>2, <3>1 DEF SentInv
  <2>3. CASE v = w
    <3>1. attempt[p] # 0 /\ attempt[p] \in Nat /\ now \in Nat
      BY <1>1 DEF CallInv, TypeInv
    <3>2. pc'[p] \notin {"ok", "error"}
      BY <1>1 DEF TypeInv
    <3> QED
      BY <2>3, <3>1, <3>2, <1>0, <1>1, <1>3
  <2> QED
    BY <1>1, <2>2, <2>3
<1>8. HeardInv'
  <2>1. \A q \in Party, v \in stored : Audible(q, v) => Audible(q, v)'
    BY <1>1 DEF Audible
  <2>2. Audible(Peer(p), w)'
    <3>1. {now, began[Peer(p)], Lookback} \subseteq Nat /\ began[Peer(p)] <= now
      BY <1>2, AgreementAssumption DEF TypeInv, CallInv
    <3>2. w.msg = Own(p) /\ w.at = now /\ w \in stored'
      BY <1>0, <1>1
    <3>3. w.at >= began[Peer(p)] - Lookback
      BY <3>1, <3>2
    <3> QED
      BY <1>1, <1>2, <1>3, <3>2, <3>3 DEF Audible
  <2>3. \A q \in Party : \A v \in pending'[q] : Audible(q, v)'
    <3>1. \A q \in Party : \A v \in pending[q] : v \in stored /\ Audible(q, v)
      BY DEF HeardInv, Audible
    <3>2. ASSUME NEW q \in Party, NEW v \in pending'[q]
          PROVE  v \in pending[q] \/ (q = Peer(p) /\ v = w)
      BY <1>1, <1>2 DEF TypeInv
    <3> SUFFICES ASSUME NEW q \in Party, NEW v \in pending'[q] PROVE Audible(q, v)'
      OBVIOUS
    <3>3. CASE v \in pending[q]
      BY <2>1, <3>1, <3>3
    <3>4. CASE q = Peer(p) /\ v = w
      BY <2>2, <3>4
    <3> QED
      BY <3>2, <3>3, <3>4
  <2>4. \A q \in Party : \A m \in inbox[q] : \E v \in stored' : v.msg = m /\ Audible(q, v)'
    BY <1>1, <2>1 DEF HeardInv
  <2>5. \A q \in Party : pc'[q] = "ok" => pc[q] = "ok"
    BY <1>1 DEF TypeInv
  <2>6. \A q \in Party : Own(q)' = Own(q)
    BY <1>1 DEF Own
  <2>7. \A q \in Party : pc'[q] = "ok" => \E m \in inbox[q] : result[q] = Result(Own(q), m)
    BY <2>5 DEF HeardInv
  <2> QED
    BY <1>1, <2>3, <2>4, <2>6, <2>7 DEF HeardInv
<1> QED
  BY <1>4, <1>6, <1>7, <1>8

\* The channel takes what was streamed.
LEMMA ReceiveStep ==
  ASSUME IInv, NEW p \in Party, NEW w \in pending[p], Receive(p, w) PROVE IInv'
<1> USE DEF IInv
<1>1. /\ pending' = [pending EXCEPT ![p] = @ \ {w}]
      /\ inbox' = IF inbox[p] = {} THEN [inbox EXCEPT ![p] = {w.msg}] ELSE inbox
      /\ UNCHANGED <<now, pc, attempt, began, ended, stored, listening, since, result>>
  BY DEF Receive
<1>2. Audible(p, w) /\ w \in stored /\ w.msg \in Message
  BY DEF HeardInv, Audible, TypeInv, Stored
<1>3. TypeInv'
  BY <1>1, <1>2 DEF TypeInv
<1>4. CallInv'
  BY <1>1 DEF CallInv, Active, TypeInv
<1>5. SentInv'
  BY <1>1 DEF SentInv
<1>6. pc[p] # "ok"
  BY DEF CallInv, Active
<1>7. HeardInv'
  <2> SUFFICES ASSUME NEW q \in Party
               PROVE  /\ \A v \in pending'[q] : Audible(q, v)'
                      /\ \A m \in inbox'[q] : \E v \in stored : v.msg = m /\ Audible(q, v)'
                      /\ pc[q] = "ok" => \E m \in inbox'[q] : result[q] = Result(Own(q)', m)
    BY <1>1 DEF HeardInv
  <2>1. \A v \in stored : Audible(q, v)' <=> Audible(q, v)
    BY <1>1 DEF Audible
  <2>2. \A v \in pending'[q] : v \in pending[q] /\ v \in stored /\ Audible(q, v)
    BY <1>1 DEF TypeInv, HeardInv, Audible
  <2>3. inbox'[q] = inbox[q] \/ (q = p /\ inbox'[q] = {w.msg})
    BY <1>1 DEF TypeInv
  <2>4. \A m \in inbox'[q] : \E v \in stored : v.msg = m /\ Audible(q, v)
    BY <2>3, <1>2 DEF HeardInv
  <2>5. pc[q] = "ok" => \E m \in inbox'[q] : result[q] = Result(Own(q), m)
    BY <2>3, <1>6 DEF HeardInv
  <2>6. Own(q)' = Own(q)
    BY <1>1 DEF Own
  <2> QED
    BY <2>1, <2>2, <2>4, <2>5, <2>6
<1> QED
  BY <1>3, <1>4, <1>5, <1>7

\* A call returns: its pump is quiet and its messages are made.
LEMMA ReturnStep ==
  ASSUME IInv, NEW p \in Party, Take(p) \/ GiveUp(p) PROVE IInv'
<1> USE DEF IInv
<1>1. PICK how \in {"ok", "error"} :
        /\ pc' = [pc EXCEPT ![p] = how]
        /\ \/ how = "ok" /\ \E m \in inbox[p] : result' = [result EXCEPT ![p] = Result(Own(p), m)]
           \/ how = "error" /\ UNCHANGED result
  BY DEF Take, GiveUp, Return
<1>2. /\ ended' = [ended EXCEPT ![p] = now]
      /\ listening' = [listening EXCEPT ![p] = FALSE]
      /\ since' = [since EXCEPT ![p] = 0]
      /\ pending' = [pending EXCEPT ![p] = {}]
      /\ UNCHANGED <<now, attempt, began, stored, inbox>>
      /\ Active(p)
  BY DEF Take, GiveUp, Return, Active
<1>3. Own(p) \in Message
  BY DEF TypeInv, Own, Message
<1>4. TypeInv'
  BY <1>1, <1>2, <1>3 DEF TypeInv
<1>5. CallInv'
  BY <1>1, <1>2 DEF CallInv, Active, TypeInv
<1>6. SentInv'
  <2> SUFFICES ASSUME NEW w \in stored
               PROVE  LET q == w.msg.from
                          n == w.msg.nonce
                      IN  /\ n \in 1 .. attempt[q]
                          /\ w.at <= now
                          /\ n = attempt[q] => w.at <= began[q] + Timeout
                          /\ n < attempt[q] => w.at + RetryGap < began[q]
                          /\ pc'[q] \in {"ok", "error"} => w.at <= ended'[q]
    BY <1>2 DEF SentInv
  <2>1. w.msg.from \in Party
    BY DEF TypeInv, Stored, Message
  <2>2. CASE w.msg.from = p
    BY <2>2, <1>2 DEF SentInv, TypeInv
  <2>3. CASE w.msg.from # p
    BY <2>1, <2>3, <1>1, <1>2 DEF SentInv, TypeInv
  <2> QED
    BY <2>2, <2>3
<1>7. HeardInv'
  <2> SUFFICES ASSUME NEW q \in Party
               PROVE  /\ \A v \in pending'[q] : Audible(q, v)'
                      /\ \A m \in inbox[q] : \E v \in stored : v.msg = m /\ Audible(q, v)'
                      /\ pc'[q] = "ok" => \E m \in inbox[q] : result'[q] = Result(Own(q)', m)
    BY <1>2 DEF HeardInv
  <2>1. \A v : Audible(q, v)' <=> Audible(q, v)
    BY <1>2 DEF Audible
  <2>2. \A v \in pending'[q] : v \in pending[q]
    BY <1>2 DEF TypeInv
  <2>3. Own(q)' = Own(q)
    BY <1>2 DEF Own
  <2>4. pc'[q] = "ok" => \E m \in inbox[q] : result'[q] = Result(Own(q), m)
    <3>1. CASE q = p
      BY <3>1, <1>1 DEF TypeInv
    <3>2. CASE q # p
      BY <3>2, <1>1 DEF TypeInv, HeardInv
    <3> QED
      BY <3>1, <3>2
  <2> QED
    BY <2>1, <2>2, <2>3, <2>4 DEF HeardInv
<1> QED
  BY <1>4, <1>5, <1>6, <1>7

\* Every step preserves the invariant.
LEMMA NextIInv == IInv /\ [Next]_vars => IInv'
<1> SUFFICES ASSUME IInv, [Next]_vars PROVE IInv'
  OBVIOUS
<1>1. CASE UNCHANGED vars
  BY <1>1 DEF vars, IInv, TypeInv, CallInv, SentInv, HeardInv, Active, Audible, Own
<1>2. CASE Next
  BY <1>2, TickStep, BeginStep, ListenStep, SendStep, ReceiveStep, ReturnStep DEF Next
<1> QED
  BY <1>1, <1>2
-----------------------------------------------------------------------------
(* The theorems *)

\* The inductive invariant holds in every reachable state.
THEOREM Invariance == Spec => []IInv
  BY InitIInv, NextIInv, PTL DEF Spec

\* Type correctness: a party hears only its peer, and what a successful call
\* returns is made of its own present message and one of the peer's.
THEOREM TypeCorrect == Spec => []TypeOK
<1>1. IInv => TypeOK
  <2> SUFFICES ASSUME IInv PROVE TypeOK
    OBVIOUS
  <2>0. attempt \in [Party -> Nat]
    BY DEF IInv, TypeInv
  <2>1. \A p \in Party : attempt[p] <= MaxAttempts[p]
    BY DEF IInv, CallInv
  <2>2. \A p \in Party : \A m \in inbox[p] : m \in Message /\ m.from = Peer(p)
    BY DEF IInv, TypeInv, HeardInv, Audible
  <2>3. \A p \in Party : \A w \in pending[p] : w \in stored /\ w.msg.from = Peer(p)
    BY DEF IInv, HeardInv, Audible
  <2> QED
    BY <2>0, <2>1, <2>2, <2>3 DEF IInv, TypeInv, HeardInv, TypeOK
<1> QED
  BY <1>1, Invariance, PTL

\* For any fees, windows and number of attempts: with callers that wait long
\* enough, two calls that succeeded agree on the nonces and on the fee.
THEOREM PatientCallersAgree == PatientCallers /\ Spec => []Agreement
<1>1. PatientCallers /\ IInv => Agreement
  BY InvAgreement
<1>2. PatientCallers /\ Spec => []PatientCallers
  <2>1. PatientCallers /\ [Next]_vars => PatientCallers'
    BY DEF PatientCallers
  <2> QED
    BY <2>1, PTL DEF Spec
<1> QED
  BY <1>1, <1>2, Invariance, PTL
-----------------------------------------------------------------------------
(* A message of the peer is never missed *)

\* While a party listens, each message of its peer from within its window is still
\* to be streamed, or one of them has taken the place in its channel.
Heard(p) == \A w \in stored : w.msg.from = Peer(p) /\ w.at >= since[p] =>
                                w \in pending[p] \/ inbox[p] # {}
ListenInv == \A p \in Party : listening[p] => Heard(p)

LEMMA ListenInvStep == ASSUME IInv, ListenInv, [Next]_vars  PROVE ListenInv'
<1>0. TypeInv /\ CallInv
  BY DEF IInv
<1>1. CASE Tick \/ UNCHANGED vars
  BY <1>1 DEF Tick, vars, pumpVars, ListenInv, Heard
<1>2. ASSUME NEW p \in Party, Begin(p)  PROVE ListenInv'
  <2>1. ~listening[p]
    BY <1>0, <1>2 DEF CallInv, Active, Begin, MayBegin
  <2>2. UNCHANGED <<stored, listening, since, pending>> /\ inbox' = [inbox EXCEPT ![p] = {}]
    BY <1>2 DEF Begin
  <2>3. \A r \in Party : r # p => inbox'[r] = inbox[r]
    BY <1>0, <2>2 DEF TypeInv
  <2>4. QED
    BY <2>1, <2>2, <2>3 DEF ListenInv, Heard
<1>3. ASSUME NEW p \in Party, Listen(p)  PROVE ListenInv'
  <2>1. /\ UNCHANGED <<stored, inbox>>
        /\ listening' = [listening EXCEPT ![p] = TRUE]
        /\ since' = [since EXCEPT ![p] = now - Lookback]
        /\ pending' = [pending EXCEPT ![p] = Matching(p)]
    BY <1>3 DEF Listen
  <2>2. pending'[p] = Matching(p) /\ since'[p] = now - Lookback
    BY <1>0, <2>1 DEF TypeInv
  <2>3. \A r \in Party : r # p => /\ listening'[r] = listening[r] /\ since'[r] = since[r]
                                  /\ pending'[r] = pending[r]
    BY <1>0, <2>1 DEF TypeInv
  <2>4. Heard(p)'
    BY <2>1, <2>2 DEF Heard, Matching
  <2>5. ASSUME NEW r \in Party, r # p, listening'[r]  PROVE Heard(r)'
    BY <2>1, <2>3, <2>5 DEF ListenInv, Heard
  <2>6. QED
    BY <2>4, <2>5 DEF ListenInv
<1>4. ASSUME NEW p \in Party, Send(p)  PROVE ListenInv'
  <2> DEFINE w == [msg |-> Own(p), at |-> now]
  <2>1. /\ stored' = stored \cup {w} /\ UNCHANGED <<listening, since, inbox>>
        /\ pending' = IF listening[Peer(p)]
                        THEN [pending EXCEPT ![Peer(p)] = @ \cup {w}] ELSE pending
    BY <1>4 DEF Send
  <2>2. w.msg.from = p
    BY DEF Own
  <2> HIDE DEF w
  <2>3. ASSUME NEW r \in Party, listening[r]  PROVE Heard(r)'
    <3>1. pending[r] \subseteq pending'[r]
      BY <1>0, <2>1 DEF TypeInv
    <3>2. Peer(r) = p => w \in pending'[r]
      BY <1>0, <2>1, <2>3, PeerFacts DEF TypeInv
    <3>3. QED
      BY <2>1, <2>2, <2>3, <3>1, <3>2 DEF ListenInv, Heard
  <2>4. QED
    BY <2>1, <2>3 DEF ListenInv
<1>5. ASSUME NEW p \in Party, NEW w \in pending[p], Receive(p, w)  PROVE ListenInv'
  <2>1. /\ UNCHANGED <<stored, listening, since>> /\ pending' = [pending EXCEPT ![p] = @ \ {w}]
        /\ inbox' = IF inbox[p] = {} THEN [inbox EXCEPT ![p] = {w.msg}] ELSE inbox
    BY <1>5 DEF Receive
  <2>2. inbox'[p] # {}
    <3>1. CASE inbox[p] = {}
      <4>1. inbox' = [inbox EXCEPT ![p] = {w.msg}]
        BY <2>1, <3>1
      <4>2. inbox'[p] = {w.msg}
        BY <1>0, <4>1 DEF TypeInv
      <4>3. QED
        BY <4>2
    <3>2. CASE inbox[p] # {}
      BY <2>1, <3>2
    <3>3. QED
      BY <3>1, <3>2
  <2>3. \A r \in Party : r # p => inbox'[r] = inbox[r] /\ pending'[r] = pending[r]
    <3>1. inbox' = inbox \/ inbox' = [inbox EXCEPT ![p] = {w.msg}]
      BY <2>1
    <3>2. QED
      BY <1>0, <2>1, <3>1 DEF TypeInv
  <2>4. QED
    BY <2>1, <2>2, <2>3 DEF ListenInv, Heard
<1>6. ASSUME NEW p \in Party, Take(p) \/ GiveUp(p)  PROVE ListenInv'
  <2>1. /\ UNCHANGED <<stored, inbox>>
        /\ listening' = [listening EXCEPT ![p] = FALSE]
        /\ since' = [since EXCEPT ![p] = 0] /\ pending' = [pending EXCEPT ![p] = {}]
    BY <1>6 DEF Take, GiveUp, Return
  <2>2. ~listening'[p] /\ \A r \in Party : r # p => /\ listening'[r] = listening[r]
                                                    /\ since'[r] = since[r]
                                                    /\ pending'[r] = pending[r]
    BY <1>0, <2>1 DEF TypeInv
  <2>3. QED
    BY <2>1, <2>2 DEF ListenInv, Heard
<1>7. QED
  BY <1>1, <1>2, <1>3, <1>4, <1>5, <1>6 DEF Next

\* A call that waits and listens, and whose peer has published within its window, can
\* always go on: the channel holds a message, or the pump has one to stream, whatever
\* was published first, replayed or dropped because the channel was full.
THEOREM OverlapIsOnItsWay ==
  Spec => [](\A p \in Party : pc[p] = "wait" /\ listening[p] /\ PeerHasPublished(p) =>
               \/ \E m \in inbox[p] : m.from = Peer(p)
               \/ \E w \in pending[p] : w.msg.from = Peer(p))
<1>1. Init => ListenInv
  BY DEF Init, ListenInv
<1>2. IInv /\ ListenInv /\ [Next]_vars => ListenInv'
  BY ListenInvStep
<1>3. Spec => []ListenInv
  BY <1>1, <1>2, Invariance, PTL DEF Spec
<1>4. IInv /\ ListenInv => \A p \in Party : pc[p] = "wait" /\ listening[p] /\ PeerHasPublished(p) =>
                             \/ \E m \in inbox[p] : m.from = Peer(p)
                             \/ \E w \in pending[p] : w.msg.from = Peer(p)
  BY DEF ListenInv, Heard, PeerHasPublished, IInv, HeardInv, Audible
<1>5. QED
  BY <1>3, <1>4, Invariance, PTL
================================================================================
