------------------------------- MODULE Dispatch -------------------------------
(***************************************************************************)
(* The handlers of pages, buttons and inputs (source/patch/global_patch):  *)
(* three vectors, to which MainThread appends while the game's thread      *)
(* walks them in the hooks of GlobalPatch.  Nothing locks them.            *)
(*                                                                         *)
(* The source registers at most two handlers for a vector, and a vector    *)
(* grows from a capacity of 0 to 1 and from 1 to 2.  So each push_back     *)
(* moves the entries into a new buffer and frees the old one: buffer k of  *)
(* a vector is the one that k entries fill, and 0 is NULL.                 *)
(***************************************************************************)
EXTENDS Integers, Sequences, FiniteSets

CONSTANTS
  Registrations,  \* Register* calls in their order: vector, page, and the pages on
                  \* which the handler may cancel the event
  Pages,          \* identifiers of pages
  Global          \* GLOBAL_PAGE_ID

Vectors == {"attach", "button", "input"}

\* The registrations for a vector.
Handlers(v) == SelectSeq(Registrations, LAMBDA r : r.vector = v)
RegisteredFor(v) == {k \in DOMAIN Registrations : Registrations[k].vector = v}

ASSUME RegistrationsAssumption ==
  /\ Registrations \in Seq([vector : Vectors, page : Pages \cup {Global},
                            cancels : SUBSET Pages])
  /\ \A v \in Vectors : Cardinality(RegisteredFor(v)) <= 2
  /\ \A k \in DOMAIN Registrations :
       /\ Registrations[k].vector = "attach" => Registrations[k].cancels = {}
       /\ Registrations[k].vector = "input" => Registrations[k].page = Global
  /\ Global \notin Pages

VARIABLES
  registering,  \* which registration is next or under way, and how far it is
  start,        \* per vector, the buffer begin() is in
  finish,       \* per vector, the buffer end() is in: behind its last entry
  grown,        \* per vector, the last buffer allocated; those before are freed
  call,         \* the game's call of a hooked function, the last one once it is over
  dispatchCrashed

dispatchVars == <<registering, start, finish, grown, call, dispatchCrashed>>

NoCallYet == [state |-> "over", vector |-> "attach", page |-> Global, begin |-> 0, end |-> 0,
              pos |-> 0, ran |-> <<>>, cancel |-> FALSE, real |-> TRUE, known |-> 0]

DispatchInit ==
  /\ registering = [number |-> 1, store |-> "none"]
  /\ start = [v \in Vectors |-> 0]
  /\ finish = [v \in Vectors |-> 0]
  /\ grown = [v \in Vectors |-> 0]
  /\ call = NoCallYet
  /\ dispatchCrashed = FALSE

DispatchTypeOK ==
  /\ registering \in [number : 1..(Len(Registrations) + 1), store : {"none", "start", "finish"}]
  /\ start \in [Vectors -> 0..2] /\ finish \in [Vectors -> 0..2] /\ grown \in [Vectors -> 0..2]
  /\ call.state \in {"begin", "walk", "over"}
  /\ call.begin \in 0..2 /\ call.end \in 0..2 /\ call.pos \in 0..2 /\ call.known \in 0..2
  /\ call.cancel \in BOOLEAN /\ call.real \in BOOLEAN /\ dispatchCrashed \in BOOLEAN

-----------------------------------------------------------------------------
(* MainThread: the push_back of a Register function. *)

Growing == Registrations[registering.number].vector

\* The entries are moved to the new buffer and the old one is freed.
Grow ==
  /\ registering.number <= Len(Registrations) /\ registering.store = "none"
  /\ grown' = [grown EXCEPT ![Growing] = @ + 1]
  /\ registering' = [registering EXCEPT !.store = "start"]
  /\ UNCHANGED <<start, finish, call, dispatchCrashed>>

\* The vector's pointers follow one after the other.
StoreStart ==
  /\ registering.store = "start"
  /\ start' = [start EXCEPT ![Growing] = grown[Growing]]
  /\ registering' = [registering EXCEPT !.store = "finish"]
  /\ UNCHANGED <<finish, grown, call, dispatchCrashed>>

StoreFinish ==
  /\ registering.store = "finish"
  /\ finish' = [finish EXCEPT ![Growing] = grown[Growing]]
  /\ registering' = [number |-> registering.number + 1, store |-> "none"]
  /\ UNCHANGED <<start, grown, call, dispatchCrashed>>

-----------------------------------------------------------------------------
(* The game's thread: the hooks of attach, onHandler and runHandler. *)

\* The hook reads begin() before end().
Called(v, page) ==
  /\ call.state = "over"
  /\ call' = [NoCallYet EXCEPT !.state = "begin", !.vector = v, !.page = page,
                               !.begin = start[v], !.known = finish[v]]
  /\ UNCHANGED <<registering, start, finish, grown, dispatchCrashed>>

ReadEnd ==
  /\ call.state = "begin"
  /\ call' = [call EXCEPT !.state = "walk", !.end = finish[call.vector]]
  /\ UNCHANGED <<registering, start, finish, grown, dispatchCrashed>>

\* The walk would read NULL, a freed buffer, or from one buffer on to another.
Astray == \/ call.begin # call.end
          \/ call.pos < call.end /\ call.begin # grown[call.vector]

\* Mutation: a global handler is taken for one of a page of that identifier.
MatchesPageOnly(handler, page) == handler.page = page

Matches(handler, page) == handler.page = Global \/ handler.page = page

\* One entry: a handler that matches is called, and any may cancel.
Visit ==
  /\ call.state = "walk" /\ ~Astray /\ call.pos < call.end
  /\ LET handler == Handlers(call.vector)[call.pos + 1]
     IN IF Matches(handler, call.page)
        THEN \E answer \in BOOLEAN :
               /\ answer => call.page \in handler.cancels
               /\ call' = [call EXCEPT !.pos = @ + 1, !.ran = Append(@, handler),
                                       !.cancel = @ \/ answer]
        ELSE call' = [call EXCEPT !.pos = @ + 1]
  /\ UNCHANGED <<registering, start, finish, grown, dispatchCrashed>>

\* Behind the last entry the game's own function is called, unless one cancelled.
CallReal ==
  /\ call.state = "walk" /\ ~Astray /\ call.pos = call.end
  /\ call' = [call EXCEPT !.state = "over", !.real = ~call.cancel]
  /\ UNCHANGED <<registering, start, finish, grown, dispatchCrashed>>

\* Undefined behaviour: the console crashes, or what is there matches no page until
\* the walk comes to its end.
Stray ==
  /\ call.state = "walk" /\ Astray
  /\ \/ dispatchCrashed' = TRUE /\ UNCHANGED call
     \/ /\ call' = [call EXCEPT !.pos = call.end, !.state = "over", !.real = ~call.cancel]
        /\ UNCHANGED dispatchCrashed
  /\ UNCHANGED <<registering, start, finish, grown>>

DispatchNext ==
  /\ ~dispatchCrashed
  /\ \/ Grow \/ StoreStart \/ StoreFinish
     \/ \E v \in Vectors, page \in Pages : Called(v, page)
     \/ ReadEnd \/ Visit \/ CallReal \/ Stray

DispatchSpec == DispatchInit /\ [][DispatchNext]_dispatchVars

-----------------------------------------------------------------------------
(* Properties. *)

\* The first k handlers of a vector that are for the page, in order.
For(v, k, page) ==
  LET for[n \in 0..k] ==
        IF n = 0 THEN <<>>
        ELSE LET h == Handlers(v)[n]
             IN IF h.page \in {Global, page} THEN Append(for[n - 1], h) ELSE for[n - 1]
  IN for[k]

\* Did a push_back for its vector fall into the call?
Disturbed == call.known < grown[call.vector]

\* A registered handler "will be used in the following attach calls if the conditions
\* matches" (global_patch.hpp:71-72): every call runs the handlers registered before
\* it, in order and once, and calls the game's function unless a handler that may
\* cancels; it crashes or misses one only if MainThread registered another for the
\* same vector meanwhile (global_patch.cpp:6, :19, :34).
FollowingCallsUse ==
  /\ call.state = "over" /\ ~Disturbed =>
       /\ call.ran = For(call.vector, call.known, call.page)
       /\ ~call.real => \E j \in DOMAIN call.ran : call.page \in call.ran[j].cancels
  /\ dispatchCrashed => Disturbed
=============================================================================
