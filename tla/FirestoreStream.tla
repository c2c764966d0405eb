-------------------------- MODULE FirestoreStream --------------------------
(***************************************************************************)
(* The connection of Firestore's client to its backend: class Stream       *)
(* (remote/stream.cc), the base of the write stream and the watch stream.  *)
(* A stream is a record, a method an operator on it; the modules of the    *)
(* two streams compose them into handlers.  `ok` is FALSE once a           *)
(* HARD_ASSERT has failed, which ends the process.                         *)
(*                                                                         *)
(* Left out: how long a backoff or an idle timer waits, and the stream     *)
(* token, which no handshake sends.                                        *)
(***************************************************************************)
EXTENDS Naturals

StreamType ==
    [ state   : {"Initial", "Starting", "Open", "Error", "Backoff"},
      backoff : BOOLEAN,     \* the delayed operation of backoff_ is pending
      idle    : BOOLEAN,     \* idleness_timer_ is pending
      count   : Nat,         \* close_count_
      asked   : SUBSET Nat,  \* close counts at the token requests under way
      ok      : BOOLEAN ]    \* no assertion has failed

NewStream ==
    [state |-> "Initial", backoff |-> FALSE, idle |-> FALSE, count |-> 0,
     asked |-> {}, ok |-> TRUE]

IsOpen(s) == s.state = "Open"

IsStarted(s) == s.state \in {"Starting", "Backoff", "Open"}

HardAssert(s, fact) == [s EXCEPT !.ok = @ /\ fact]

\* Without an error before it, a start asks for credentials at once.
StartNow(s) ==
    [HardAssert(s, s.state = "Initial")
        EXCEPT !.state = "Starting", !.asked = @ \union {s.count}]

Start(s) ==
    IF s.state = "Error"
    THEN [s EXCEPT !.state = "Backoff", !.backoff = TRUE]
    ELSE StartNow(s)

\* The delay is over.
BackoffElapsed(s) ==
    StartNow([HardAssert(s, s.state = "Backoff")
                 EXCEPT !.state = "Initial", !.backoff = FALSE])

\* The token has come: the gRPC stream is made, and counts as open although
\* nothing has been sent.
ResumeStart(s) == [HardAssert(s, s.state = "Starting") EXCEPT !.state = "Open"]

InhibitBackoff(s) ==
    [HardAssert(s, ~IsStarted(s)) EXCEPT !.state = "Initial"]

MarkIdle(s) == [s EXCEPT !.idle = @ \/ IsOpen(s)]

Write(s) == [HardAssert(s, IsOpen(s)) EXCEPT !.idle = FALSE]

\* A close cancels both timers and outdates the token requests under way;
\* a graceful one leaves no error behind.
Close(s, graceful) ==
    [HardAssert(s, IsStarted(s))
        EXCEPT !.state = IF graceful THEN "Initial" ELSE "Error",
               !.backoff = FALSE, !.idle = FALSE, !.count = @ + 1]
============================================================================
