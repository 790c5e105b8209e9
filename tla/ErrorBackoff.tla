---------------------------- MODULE ErrorBackoff ----------------------------
(***************************************************************************)
(* The error backoff of ControllerPublishVolume and ControllerUnpublish-   *)
(* Volume (csiErrorBackoff in controller.go) for one node and volume pair, *)
(* which all calls for the pair share.  A call inside the window of the    *)
(* last failure is refused with the code of that failure.  The window is   *)
(* kept by a Backoff of client-go, the code in a map beside it, each with  *)
(* a lock of its own.                                                      *)
(***************************************************************************)
EXTENDS Integers, FiniteSets

CONSTANTS Calls,           \* handlers that may run at the same time
          InitialDuration, \* backoff-initial-duration-ms, not 0
          MaxDuration,     \* backoff-max-duration-ms, no less
          ErrorCodes       \* codes of failed calls

VARIABLES entry, \* the window and the time since the last failure, or NoEntry
          code,  \* errorCodes[id], or NoCode
          pc, failed, reply
vars == <<entry, code, pc, failed, reply>>

NoEntry == [window |-> 0, age |-> 0]
NoCode == "no code"
Default == "Internal"

Init ==
  /\ entry = NoEntry /\ code = NoCode
  /\ pc = [c \in Calls |-> "idle"]
  /\ failed = [c \in Calls |-> NoCode] /\ reply = [c \in Calls |-> NoCode]

Goto(c, step) == pc' = [pc EXCEPT ![c] = step]

\* client-go: an entry expires after twice the longest window.
Expired == entry.age > 2 * MaxDuration
InBackOff == entry # NoEntry /\ ~Expired /\ entry.age < entry.window

Call(c) ==
  /\ pc[c] = "idle" /\ Goto(c, "called")
  /\ reply' = [reply EXCEPT ![c] = NoCode] /\ UNCHANGED <<entry, code, failed>>
\* Mutant: a refusal starts the window again.
BlockingRenews(c) ==
  /\ pc[c] = "called" /\ Goto(c, IF InBackOff THEN "code" ELSE "execute")
  /\ entry' = IF InBackOff THEN [entry EXCEPT !.age = 0] ELSE entry
  /\ UNCHANGED <<code, failed, reply>>
Blocking(c) ==
  /\ pc[c] = "called" /\ Goto(c, IF InBackOff THEN "code" ELSE "execute")
  /\ UNCHANGED <<entry, code, failed, reply>>
Code(c) ==
  /\ pc[c] = "code" /\ Goto(c, "idle")
  /\ reply' = [reply EXCEPT ![c] = IF code = NoCode THEN Default ELSE code]
  /\ UNCHANGED <<entry, code, failed>>

Execute(c) ==
  /\ pc[c] = "execute"
  /\ \/ Goto(c, "reset") /\ UNCHANGED failed
     \/ \E err \in ErrorCodes : failed' = [failed EXCEPT ![c] = err] /\ Goto(c, "next")
  /\ UNCHANGED <<entry, code, reply>>

\* next: advance the window, then store the code.
NextWindow(c) ==
  /\ pc[c] = "next" /\ Goto(c, "store")
  /\ entry' = [age |-> 0,
               window |-> IF entry = NoEntry \/ Expired THEN InitialDuration
                          ELSE IF 2 * entry.window > MaxDuration THEN MaxDuration
                          ELSE 2 * entry.window]
  /\ UNCHANGED <<code, failed, reply>>
\* Mutant: only a first failure's code is stored, and nothing after a reset.
StoreCodeUnlessNew(c) ==
  /\ pc[c] = "store" /\ Goto(c, "idle")
  /\ code' = IF entry.window = InitialDuration THEN code ELSE failed[c]
  /\ reply' = [reply EXCEPT ![c] = failed[c]]
  /\ UNCHANGED <<entry, failed>>
StoreCode(c) ==
  /\ pc[c] = "store" /\ Goto(c, "idle")
  /\ code' = failed[c] /\ reply' = [reply EXCEPT ![c] = failed[c]]
  /\ UNCHANGED <<entry, failed>>

\* reset: drop the window, then delete the code.
Reset(c) ==
  /\ pc[c] = "reset" /\ Goto(c, "delete") /\ entry' = NoEntry
  /\ UNCHANGED <<code, failed, reply>>
DeleteCode(c) ==
  /\ pc[c] = "delete" /\ Goto(c, "idle") /\ code' = NoCode
  /\ reply' = [reply EXCEPT ![c] = "OK"] /\ UNCHANGED <<entry, failed>>

Tick ==
  /\ entry # NoEntry /\ ~Expired /\ entry' = [entry EXCEPT !.age = @ + 1]
  /\ UNCHANGED <<code, pc, failed, reply>>

Handle(c) == \/ Blocking(c) \/ Code(c) \/ Execute(c) \/ NextWindow(c) \/ StoreCode(c)
             \/ Reset(c) \/ DeleteCode(c)
Next == (\E c \in Calls : Call(c) \/ Handle(c)) \/ Tick
Spec == Init /\ [][Next]_vars
\* The attacher retries, the handlers run on and time passes.
Fairness == WF_vars(Tick) /\ \A c \in Calls : WF_vars(Call(c)) /\ WF_vars(Handle(c))

(***************************************************************************)
(* Properties.                                                             *)
(***************************************************************************)
TypeOK ==
  /\ entry.window \in 0..MaxDuration /\ entry.age \in 0..(2 * MaxDuration + 1)
  /\ code \in ErrorCodes \cup {NoCode}
  /\ \A c \in Calls : pc[c] \in {"idle", "called", "code", "execute", "next", "store",
                                 "reset", "delete"}

\* A call that is refused gets the code of a call that failed: the default code is
\* for a next() that was not called correctly. (Where the calls of a pair do not overlap:
\* README, Observations.)
BlockedCodeIsRecorded == \A c \in Calls : reply[c] \in ErrorCodes \cup {NoCode, "OK"}

\* Refusals do not go on for ever: among retried calls one is let through again and
\* again, because a refusal does not extend the window and the window is bounded.
AttemptedInTheEnd == Fairness => []<>(\E c \in Calls : pc[c] = "execute")

=============================================================================
