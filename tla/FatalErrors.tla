----------------------------- MODULE FatalErrors -----------------------------
(***************************************************************************)
(* FatalError (source/main.cpp): any thread may report an error; only the  *)
(* first is kept.  MainThread polls errorType, and FatalError is a read    *)
(* followed by three assignments without a lock, so each is a step.        *)
(***************************************************************************)
CONSTANTS
  Threads,     \* the threads that report errors
  Codes,       \* the errors they report ("444-....")
  None         \* no error, no text

ASSUME CodesAssumption == None \notin Codes

VARIABLES
  errorArg,    \* what the error viewer is given
  raising      \* per thread, the FatalError call it is in, if any

errorVars == <<errorArg, raising>>

NotRaising == [code |-> None, at |-> "out"]

ErrorTypeOK ==
  /\ errorArg \in [errorType : {0, 1}, errorText : Codes \cup {None},
                   titleText : Codes \cup {None}]
  /\ raising \in [Threads -> [code : Codes, at : {"check", "type", "text", "title"}]
                             \cup {NotRaising}]

ErrorInit ==
  /\ errorArg = [errorType |-> 0, errorText |-> None, titleText |-> None]
  /\ raising = [t \in Threads |-> NotRaising]

Idle(t) == raising[t] = NotRaising

\* Thread t calls FatalError; the caller goes on when it is idle again.
FatalError(t, code) ==
  /\ raising' = [raising EXCEPT ![t] = [code |-> code, at |-> "check"]]
  /\ UNCHANGED errorArg

Goes(t, at) == raising' = [raising EXCEPT ![t].at = at]
Returns(t) == raising' = [raising EXCEPT ![t] = NotRaising]

Check(t) ==
  /\ raising[t].at = "check"
  /\ IF errorArg.errorType # 1 THEN Goes(t, "type") ELSE Returns(t)
  /\ UNCHANGED errorArg

SetType(t) ==
  /\ raising[t].at = "type"
  /\ errorArg' = [errorArg EXCEPT !.errorType = 1]
  /\ Goes(t, "text")

SetText(t) ==
  /\ raising[t].at = "text"
  /\ errorArg' = [errorArg EXCEPT !.errorText = raising[t].code]
  /\ Goes(t, "title")

SetTitle(t) ==
  /\ raising[t].at = "title"
  /\ errorArg' = [errorArg EXCEPT !.titleText = raising[t].code]
  /\ Returns(t)

\* A step inside FatalError.
Reporting(t) == Check(t) \/ SetType(t) \/ SetText(t) \/ SetTitle(t)
=============================================================================
