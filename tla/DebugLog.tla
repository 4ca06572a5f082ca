------------------------------- MODULE DebugLog -------------------------------
(***************************************************************************)
(* UDPDebugger (source/wiiu/debug.cpp) in a debug build: every thread that *)
(* runs into a hook may log, texts go out in blocks, and a mutex is to     *)
(* keep those of one text together.  A thread that crashes logs a report   *)
(* in the same way, from wherever it is, and stops the console.            *)
(*                                                                         *)
(* An OSMutex counts the locks of the thread that has it.                  *)
(***************************************************************************)
EXTENDS Integers, Sequences

CONSTANTS
  Loggers,   \* threads that log
  Lengths,   \* lengths of texts
  MaxBlock,  \* bytes of a block (1400)
  MaxTexts,  \* bound: texts each logs before it crashes
  NoOne      \* the mutex is free

ASSUME LogAssumption ==
  /\ Lengths \subseteq Nat /\ MaxBlock \in Nat \ {0} /\ MaxTexts \in Nat
  /\ NoOne \notin Loggers

VARIABLES
  mutex,    \* m_SocketMutex: its owner and how often it is locked
  printing, \* per thread, its PrintLog: len and txt as in the code, txt as an index
  texts,    \* texts a thread has begun
  blocks,   \* the last two blocks that were sent
  crashes,  \* the threads in ExceptionHandler
  socket,   \* is m_SocketFd open?
  fatal     \* OSFatal has stopped everything

logVars == <<mutex, printing, texts, blocks, crashes, socket, fatal>>

NotPrinting == [logAt |-> "out", len |-> 0, txt |-> 0]

LogInit ==
  /\ mutex = [owner |-> NoOne, locks |-> 0]
  /\ printing = [l \in Loggers |-> NotPrinting]
  /\ texts = [l \in Loggers |-> 0]
  /\ blocks = <<>>
  /\ crashes = {}
  /\ socket = TRUE /\ fatal = FALSE

LogTypeOK ==
  /\ mutex \in [owner : Loggers \cup {NoOne}, locks : 0..2]
  /\ printing \in [Loggers -> [logAt : {"out", "enter", "send", "leave", "reported", "closed"},
                               len : Nat, txt : Nat]]
  /\ texts \in [Loggers -> 0..(MaxTexts + 1)]
  /\ blocks \in Seq([logger : Loggers, text : Nat, from : Nat, to : Nat])
  /\ crashes \subseteq Loggers
  /\ socket \in BOOLEAN /\ fatal \in BOOLEAN

Goes(l, at) == printing' = [printing EXCEPT ![l].logAt = at]

Begin(l, len) ==
  /\ texts' = [texts EXCEPT ![l] = @ + 1]
  /\ printing' = [printing EXCEPT ![l] = [logAt |-> "enter", len |-> len, txt |-> 0]]
  /\ UNCHANGED <<mutex, blocks, socket, fatal>>

\* Thread l calls PrintLog with a text of len bytes.
PrintLog(l, len) ==
  /\ printing[l].logAt = "out" /\ texts[l] < MaxTexts
  /\ Begin(l, len)
  /\ UNCHANGED crashes

\* Mutation: the mutex is not waited for.
EnterAtOnce(l) ==
  /\ printing[l].logAt = "enter"
  /\ mutex' = [owner |-> l, locks |-> 1]
  /\ Goes(l, "send")
  /\ UNCHANGED <<texts, blocks, crashes, socket, fatal>>

EnterCriticalSection(l) ==
  /\ printing[l].logAt = "enter" /\ mutex.owner \in {NoOne, l}
  /\ mutex' = [owner |-> l, locks |-> mutex.locks + 1]
  /\ Goes(l, "send")
  /\ UNCHANGED <<texts, blocks, crashes, socket, fatal>>

Block(l) == IF printing[l].len < MaxBlock THEN printing[l].len ELSE MaxBlock

LastTwo(s) == SubSeq(s, IF Len(s) > 2 THEN Len(s) - 1 ELSE 1, Len(s))

\* One round of the loop: ret bytes of the block are sent.
SendTo(l) ==
  /\ printing[l].logAt = "send" /\ socket
  /\ \E ret \in 1..Block(l) :
       /\ blocks' = LastTwo(Append(blocks, [logger |-> l, text |-> texts[l],
                                            from |-> printing[l].txt, to |-> printing[l].txt + ret]))
       /\ printing' = [printing EXCEPT ![l].len = @ - ret, ![l].txt = @ + ret]
  /\ UNCHANGED <<mutex, texts, crashes, socket, fatal>>

\* Mutation: where the sending fails, PrintLog returns.
SentReturning(l) ==
  /\ printing[l].logAt = "send"
  /\ IF printing[l].len = 0 \/ l \in crashes THEN Goes(l, "leave")
     ELSE printing' = [printing EXCEPT ![l] = NotPrinting]
  /\ UNCHANGED <<mutex, texts, blocks, crashes, socket, fatal>>

\* The loop is left: all is sent, or the sending fails.
Sent(l) ==
  /\ printing[l].logAt = "send"
  /\ Goes(l, "leave")
  /\ UNCHANGED <<mutex, texts, blocks, crashes, socket, fatal>>

LeaveCriticalSection(l) ==
  /\ printing[l].logAt = "leave"
  /\ mutex' = IF mutex.locks > 1 THEN [mutex EXCEPT !.locks = @ - 1]
              ELSE [owner |-> NoOne, locks |-> 0]
  /\ IF l \in crashes THEN Goes(l, "reported")
     ELSE printing' = [printing EXCEPT ![l] = NotPrinting]
  /\ UNCHANGED <<texts, blocks, crashes, socket, fatal>>

\* ExcDSI, ExcISI or ExcProgram: the thread crashes, in PrintLog too, and reports it.
ExceptionHandler(l, len) ==
  /\ l \notin crashes /\ printing[l].logAt \in {"out", "enter", "send"}
  /\ crashes' = crashes \cup {l}
  /\ Begin(l, len)

CloseSocket(l) ==
  /\ printing[l].logAt = "reported"
  /\ socket' = FALSE
  /\ Goes(l, "closed")
  /\ UNCHANGED <<mutex, texts, blocks, crashes, fatal>>

Fatal(l) ==
  /\ printing[l].logAt = "closed"
  /\ fatal' = TRUE
  /\ UNCHANGED <<mutex, printing, texts, blocks, crashes, socket>>

\* A thread that has begun to log goes on.
Logging(l) ==
  \/ EnterCriticalSection(l) \/ SendTo(l) \/ Sent(l) \/ LeaveCriticalSection(l)
  \/ CloseSocket(l) \/ Fatal(l)

LogNext ==
  /\ ~fatal
  /\ \E l \in Loggers :
       \/ \E len \in Lengths : PrintLog(l, len) \/ ExceptionHandler(l, len)
       \/ Logging(l)

\* Whether anyone is scheduled or not.
LogSpec == LogInit /\ [][LogNext]_logVars

\* A block that does not begin its text follows right behind the block before it in
\* that text, however sendto splits the texts of the threads and wherever they crash
\* (debug.cpp:105-120, :50).
TextsWhole ==
  LET last == blocks[Len(blocks)]
  IN blocks # <<>> /\ last.from # 0 =>
       /\ Len(blocks) = 2
       /\ blocks[1] = [last EXCEPT !.from = blocks[1].from, !.to = last.from]

\* A crash stops the console, although its report first needs the mutex that the
\* crashed thread itself or another one, which may crash too, has (debug.cpp:50-52).
CrashStops == crashes # {} ~> fatal
=============================================================================
