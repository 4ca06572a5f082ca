------------------------------ MODULE MCServices ------------------------------
(***************************************************************************)
(* The parts of the mod that do not depend on each other, for model        *)
(* checking in one run: a behaviour is one of one of them.                 *)
(***************************************************************************)
EXTENDS KernelCopy, KeyStream, DebugLog, MessageTable, Dispatch, Trampoline,
        PathResolution, CupIcons, CursorMoves, Matchmaking, Restart, UpdateList

VARIABLE service

vars == <<service, copyVars, streamVars, logVars, tableVars, dispatchVars, callVars,
          resolveVars, iconVars, cursorVars, meetVars, restartVars, listVars>>

\* Windows of 2 bytes, four side by side; a copy passes up to two ends of them.
MCCopies ==
  {c \in [addr : 0..(Space - 1), src : 0..(Space - 1), len : {0, 1, 3, 9}] :
     /\ c.addr + c.len <= Space /\ c.src + c.len <= Space
     /\ OneKind(c.addr, c.len) /\ OneKind(c.src, c.len)
     /\ c.addr \notin (c.src + 1)..(c.src + c.len - 1)}

\* One bit after the other.
MCXor == [a \in Bytes |-> [b \in Bytes |-> 2 * ((a \div 2 + b \div 2) % 2) + ((a + b) % 2)]]
MCKeys == {<<a, b, c>> : a, b, c \in Bytes} \cup {<<a, b>> : a, b \in Bytes}
MCFiles == {<<0, 0, 0, 0, 0, 0>>, <<3, 1, 0, 2, 3, 2>>}

\* The speedometer, the toggle and two names from the archive.
MCAdds == <<[id |-> 1, alloc |-> FALSE], [id |-> 2, alloc |-> FALSE],
            [id |-> 3, alloc |-> TRUE], [id |-> 4, alloc |-> TRUE]>>

\* The buttons' two handlers and the title's; nothing registers one for inputs.
MCRegistrations == <<[vector |-> "button", page |-> "Global", cancels |-> {"Course"}],
                     [vector |-> "button", page |-> "WifiTop", cancels |-> {"WifiTop"}],
                     [vector |-> "attach", page |-> "TitleTop", cancels |-> {}]>>

\* Words in both halves of the address space: an address whose successor carries, a
\* destination with the bits that a branch's operation code must not get, one that only
\* a relative branch reaches; mflr r0, stwu, lis, stw and li.
MCSources == {<<\h0E5D, \h3BA4>>, <<\h0FAB, \hFFFC>>}
MCDestinations == {<<\h00A0, \h2000>>, <<\h01A3, \hFFFC>>, <<\h0F00, \h0004>>}
MCJumps == <<\h00B0, \h1000>>
MCFirsts == {<<\h7C08, \h02A6>>, <<\h9421, \hFFF0>>, <<\h3C00, \h1020>>, <<\h9061, 8>>,
            <<\h3860, 1>>}
MCValues == {<<\h1234, \h5678>>, <<\hFFFF, \h8000>>}
MCStack == <<\h1000, \h0010>>

\* One track's name is inside another's; the last one is never looked for.  One released
\* file is not on the SD card, and two there were not released.
MCTrackNames == [n \in 0..2 |-> CASE n = 0 -> <<5>> [] n = 1 -> <<5, 6>> [] n = 2 -> <<7>>]
MCCustomNames == {<<8>>, <<8, 3>>}
MCGamePaths == {<<1, 9, 5>>, <<1, 9, 5, 6>>, <<1, 9, 7>>, <<1, 4>>, <<1, 5, 2>>}
MCPrefix == <<1>>
MCReleased == {<<4>>, <<9, 8>>, <<9, 8, 3>>, <<9, 5, 6>>, <<8, 3, 2>>}
MCSdFiles == (MCReleased \ {<<9, 8>>}) \cup {<<9, 7>>, <<9, 5>>}

\* The services that are at rest have one initial state.
OneCopy == copy = CHOOSE c \in Copies : TRUE
OneStream == key = (CHOOSE k \in Keys : TRUE) /\ file = (CHOOSE f \in Files : TRUE)

Init ==
  /\ service \in {"copy", "stream", "log", "table", "dispatch", "call", "resolve", "icon",
                  "cursor", "meet", "restart", "list"}
  /\ service # "copy" => OneCopy
  /\ service # "stream" => OneStream
  /\ CopyInit /\ StreamInit /\ LogInit /\ TableInit /\ DispatchInit /\ CallInit
  /\ ResolveInit /\ IconInit /\ CursorInit /\ MeetInit /\ RestartInit /\ ListInit

Next ==
  \/ /\ service = "copy" /\ CopyNext
     /\ UNCHANGED <<service, streamVars, logVars, tableVars, dispatchVars, callVars, resolveVars, iconVars, cursorVars, meetVars, restartVars, listVars>>
  \/ /\ service = "stream" /\ StreamNext
     /\ UNCHANGED <<service, copyVars, logVars, tableVars, dispatchVars, callVars, resolveVars, iconVars, cursorVars, meetVars, restartVars, listVars>>
  \/ /\ service = "log" /\ LogNext
     /\ UNCHANGED <<service, copyVars, streamVars, tableVars, dispatchVars, callVars, resolveVars, iconVars, cursorVars, meetVars, restartVars, listVars>>
  \/ /\ service = "table" /\ TableNext
     /\ UNCHANGED <<service, copyVars, streamVars, logVars, dispatchVars, callVars, resolveVars, iconVars, cursorVars, meetVars, restartVars, listVars>>
  \/ /\ service = "dispatch" /\ DispatchNext
     /\ UNCHANGED <<service, copyVars, streamVars, logVars, tableVars, callVars, resolveVars, iconVars, cursorVars, meetVars, restartVars, listVars>>
  \/ /\ service = "call" /\ CallNext
     /\ UNCHANGED <<service, copyVars, streamVars, logVars, tableVars, dispatchVars, resolveVars, iconVars, cursorVars, meetVars, restartVars, listVars>>
  \/ /\ service = "resolve" /\ ResolveNext
     /\ UNCHANGED <<service, copyVars, streamVars, logVars, tableVars, dispatchVars, callVars, iconVars, cursorVars, meetVars, restartVars, listVars>>
  \/ /\ service = "icon" /\ IconNext
     /\ UNCHANGED <<service, copyVars, streamVars, logVars, tableVars, dispatchVars, callVars, resolveVars, cursorVars, meetVars, restartVars, listVars>>
  \/ /\ service = "cursor" /\ CursorNext
     /\ UNCHANGED <<service, copyVars, streamVars, logVars, tableVars, dispatchVars, callVars, resolveVars, iconVars, meetVars, restartVars, listVars>>
  \/ /\ service = "meet" /\ MeetNext
     /\ UNCHANGED <<service, copyVars, streamVars, logVars, tableVars, dispatchVars, callVars, resolveVars, iconVars, cursorVars, restartVars, listVars>>
  \/ /\ service = "restart" /\ RestartNext
     /\ UNCHANGED <<service, copyVars, streamVars, logVars, tableVars, dispatchVars, callVars, resolveVars, iconVars, cursorVars, meetVars, listVars>>
  \/ /\ service = "list" /\ ListNext
     /\ UNCHANGED <<service, copyVars, streamVars, logVars, tableVars, dispatchVars, callVars, resolveVars, iconVars, cursorVars, meetVars, restartVars>>

\* Threads keep running, and whoever waits for the mutex has its turn.
Alone ==
  service = "log" /\ UNCHANGED <<service, copyVars, streamVars, tableVars, dispatchVars,
    callVars, resolveVars, iconVars, cursorVars, meetVars, restartVars, listVars>>
Fairness ==
  \A l \in Loggers : /\ WF_vars(Alone /\ ~fatal /\ Logging(l))
                     /\ SF_vars(Alone /\ ~fatal /\ EnterCriticalSection(l))

Spec == Init /\ [][Next]_vars /\ Fairness

\* The types of all of them (kernel.cpp, crypto_engine.cpp, debug.cpp, message.cpp,
\* global_patch.cpp, patcher.cpp, filesystem.cpp, course.cpp, online.cpp, entry.cpp,
\* create_archive.py).
TypeOK ==
  /\ CopyTypeOK /\ StreamTypeOK /\ LogTypeOK /\ TableTypeOK /\ DispatchTypeOK /\ CallTypeOK
  /\ ResolveTypeOK /\ IconTypeOK /\ CursorTypeOK /\ MeetTypeOK /\ RestartTypeOK /\ UpdateTypeOK
=============================================================================
