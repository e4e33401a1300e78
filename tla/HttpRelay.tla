------------------------------- MODULE HttpRelay -------------------------------
(***************************************************************************)
(* The HTTP relay of relay.go, for one session: the handlers under its     *)
(* mutex, each an operator on the cache.  An entry lives five minutes from *)
(* its last write, longer than the calls of a session, and is not expired  *)
(* here.  A session that is not in the cache is one without participants.  *)
(***************************************************************************)
EXTENDS Naturals

CONSTANT Party

VARIABLES
  participants,   \* how often each party is listed in the session's entry
  messages,       \* the session's list of messages, as records with their place in it
  arrivals,       \* how many have arrived
  completed       \* the party in the completion entry, at most one

relayVars == <<participants, messages, arrivals, completed>>

\* MD5 of the body, which names its sender but not its receiver.
Hash(m) == <<m.from, m.round>>

RelayInit == /\ participants = [p \in Party |-> 0]
             /\ messages = {} /\ arrivals = 0
             /\ completed = {}

PostSession(p) == participants' = [participants EXCEPT ![p] = @ + 1]

DeleteSession == participants' = [p \in Party |-> 0]

\* m with the sequence number n is appended to the session's list.
PostMessage(m, n) ==
  /\ messages' = messages \cup
       {[from |-> m.from, to |-> m.to, round |-> m.round, seqNo |-> n, at |-> arrivals]}
  /\ arrivals' = arrivals + 1

\* Mutant: the messages of the whole session.
GetAnyMessage(p) == {m \in messages : p \in Party}

GetMessage(p) == {m \in messages : m.to = p}

\* p is the participant of the path, taken for the sender.
DeleteTssMessage(p, h) ==
  messages' = {m \in messages : ~(Hash(m) = h /\ m.from = p)}

\* completedKeygen and completedKeysign replace what an earlier party said.
Complete(p) == completed' = {p}
================================================================================
