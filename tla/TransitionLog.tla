---------------------------- MODULE TransitionLog ----------------------------
(***************************************************************************)
(* What the MAX-OS-1 state substrate promises its callers about one key.   *)
(* A call carries a transition (an id and the version it expects).  The    *)
(* key's history is a log of calls; a transition takes effect atomically,  *)
(* at the version it expects, and never when its id already took effect.   *)
(* A call that is answered "unavailable" (a timeout, a lost response) is   *)
(* undecided: its transition may still take effect afterwards.  A call     *)
(* answered "conflict" has no effect, ever.                                *)
(***************************************************************************)
EXTENDS StateModels

VARIABLES log,       \* the calls that took effect, oldest first
          expected,  \* the version each call expects
          answer,    \* what each call's caller knows
          returned   \* the state model returned to a caller answered "ok"

logVars == <<log, expected, answer, returned>>

LogTypeOK ==
  /\ log \in Seq(Calls)
  /\ expected \in [Calls -> Nat]
  /\ answer \in [Calls -> {"idle", "pending", "ok", "conflict", "unavailable"}]
  /\ returned \in [Calls -> Model]

LogInit ==
  /\ log = <<>>
  /\ expected = [c \in Calls |-> 0]
  /\ answer = [c \in Calls |-> "idle"]
  /\ returned = [c \in Calls |-> Blank]

\* A caller that has read some version of the key asks for a transition.
Ask(c) ==
  /\ answer[c] = "idle"
  /\ \E e \in 0 .. Len(log) : expected' = [expected EXCEPT ![c] = e]
  /\ answer' = [answer EXCEPT ![c] = "pending"]
  /\ UNCHANGED <<log, returned>>

\* The transition takes effect, possibly after its caller gave up.
Apply(c) ==
  /\ answer[c] \in {"pending", "unavailable"}
  /\ Len(log) = expected[c]
  /\ ~Applied(IdOf[c], StateAfter(log))
  /\ log' = Append(log, c)
  /\ UNCHANGED <<expected, answer, returned>>

\* The caller gets a state the key did hold, with its transition in it.
AnswerOk(c) ==
  /\ answer[c] = "pending"
  /\ \E n \in 1 .. Len(log) :
       /\ Applied(IdOf[c], StateAfter(SubSeq(log, 1, n)))
       /\ returned' = [returned EXCEPT ![c] = StateAfter(SubSeq(log, 1, n))]
  /\ answer' = [answer EXCEPT ![c] = "ok"]
  /\ UNCHANGED <<log, expected>>

\* A refusal is final: the version the call expects is gone.
AnswerConflict(c) ==
  /\ answer[c] = "pending"
  /\ ~Occurs(c, log)
  /\ expected[c] < Len(log)
  /\ answer' = [answer EXCEPT ![c] = "conflict"]
  /\ UNCHANGED <<log, expected, returned>>

AnswerUnavailable(c) ==
  /\ answer[c] = "pending"
  /\ answer' = [answer EXCEPT ![c] = "unavailable"]
  /\ UNCHANGED <<log, expected, returned>>

LogNext ==
  \E c \in Calls :
    \/ Ask(c)
    \/ Apply(c)
    \/ AnswerOk(c)
    \/ AnswerConflict(c)
    \/ AnswerUnavailable(c)

LogSpec == LogInit /\ [][LogNext]_logVars
==============================================================================
