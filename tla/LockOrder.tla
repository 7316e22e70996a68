----------------------------- MODULE LockOrder -----------------------------
(***************************************************************************)
(* The three locks of the game server: Server::badfds_lock_ and            *)
(* out_data_lock_ (server.cpp) and World::mutex_ (world.cpp), none of      *)
(* which may be locked twice by a thread.  The server's core thread, the   *)
(* main thread that runs World::tick, and the SslClient threads take them  *)
(* inside each other in every order: badfds_lock_, mutex_, out_data_lock_, *)
(* badfds_lock_.                                                           *)
(*                                                                         *)
(* GameServer takes what is done under a lock as one step; here a thread   *)
(* is at a place in the code, and what it does between locks is left out:  *)
(* which way it takes is open.                                             *)
(***************************************************************************)
CONSTANT Replier   \* the threads of SslClient

Core == "core"     \* Server::core_task
Main == "main"     \* the loop that calls World::tick

Thread == {Core, Main} \cup Replier

Lock == {"badfds_lock_", "out_data_lock_", "mutex_"}

Nobody == "nobody"

ASSUME ReplierAssumption == {Core, Main, Nobody} \cap Replier = {}

VARIABLES
  owner,  \* who holds a lock, or Nobody
  place,  \* where a thread is: the function, and the part of it
  wants   \* the lock a thread waits for, or "none"

lockVars == <<owner, place, wants>>

Top == <<"core_task", "loop">>
Idle == <<"thread", "idle">>

LockInit ==
  /\ owner = [lock \in Lock |-> Nobody]
  /\ place = [t \in Thread |-> IF t = Core THEN Top ELSE Idle]
  /\ wants = [t \in Thread |-> "none"]

-----------------------------------------------------------------------------
Go(t, from, to) ==
  /\ wants[t] = "none" /\ place[t] = from
  /\ place' = [place EXCEPT ![t] = to]

Free(t, from, to) == Go(t, from, to) /\ UNCHANGED <<owner, wants>>

(* lock(): the thread waits ... *)
Ask(t, lock, from, to) == Go(t, from, to) /\ wants' = [wants EXCEPT ![t] = lock] /\ UNCHANGED owner

(* ... until nobody holds the lock. *)
Get(t) ==
  /\ wants[t] # "none" /\ owner[wants[t]] = Nobody
  /\ owner' = [owner EXCEPT ![wants[t]] = t]
  /\ wants' = [wants EXCEPT ![t] = "none"]
  /\ UNCHANGED place

(* unlock() *)
Release(t, lock, from, to) == Go(t, from, to) /\ owner' = [owner EXCEPT ![lock] = Nobody] /\ UNCHANGED wants

Around(t, lock, from, in, to) == Ask(t, lock, from, in) \/ Release(t, lock, in, to)

-----------------------------------------------------------------------------
(* Parts that several functions call, from a place they come back to.      *)

Senddata(t, at) == Around(t, "out_data_lock_", at, <<at[1], "senddata">>, at)

AddEvent(t, at) == Around(t, "mutex_", at, <<at[1], "add_event">>, at)

Requestclosefd(at) == Around(Core, "badfds_lock_", at, <<at[1], "requestclosefd">>, at)

(* MUTANT of Closesocket: disconnect is called before out_data_lock_ is
   released. *)
Closesocket_TellsFirst(at) ==
  \/ Ask(Core, "out_data_lock_", at, <<at[1], "purge">>)
  \/ AddEvent(Core, <<at[1], "purge">>)
  \/ Release(Core, "out_data_lock_", <<at[1], "purge">>, at)

(* closesocket: the packets of the fd are dropped, then GameServer::disconnect
   tells the world if the fd has a player. *)
Closesocket(at) ==
  LET disconnect == <<at[1], "disconnect">>
      told == <<at[1], "told">>
  IN \/ Around(Core, "out_data_lock_", at, <<at[1], "purge">>, disconnect)
     \/ Around(Core, "mutex_", disconnect, told, at)
     \/ Free(Core, disconnect, at)

-----------------------------------------------------------------------------
Closing == <<"close", "loop">>
Pass == <<"pass", "begin">>
Writing == <<"write", "loop">>
Events == <<"event", "loop">>

(* The top of core_task's loop: the fds that were asked to be closed. *)
CloseBad ==
  \/ Free(Core, Top, Pass)
  \/ Ask(Core, "badfds_lock_", Top, Closing)
  \/ Closesocket(Closing)
  \/ Release(Core, "badfds_lock_", Closing, Pass)

WritePass ==
  \/ Ask(Core, "out_data_lock_", Pass, Writing)
  \/ Requestclosefd(Writing)
  \/ Release(Core, "out_data_lock_", Writing, Events)

(* The events of a turn: errors and EPOLLOUT, then what recv does with what
   was read: cmd_login closes another fd, dispatch tells the world, and an
   answer is sent. *)
HandleEvents ==
  \/ Requestclosefd(Events)
  \/ Senddata(Core, Events)
  \/ AddEvent(Core, Events)
  \/ Closesocket(Events)
  \/ Free(Core, Events, Top)

CoreTask == CloseBad \/ WritePass \/ HandleEvents \/ Get(Core)

InTick == <<"tick", "loop">>

Tick ==
  \/ Ask(Main, "mutex_", Idle, InTick)
  \/ Senddata(Main, InTick)
  \/ Release(Main, "mutex_", InTick, Idle)
  \/ Get(Main)

(* GameServer::recv with an answer of the login server, thread by thread. *)
Reply(t) == Senddata(t, Idle) \/ AddEvent(t, Idle) \/ Get(t)

LockNext == CoreTask \/ Tick \/ \E t \in Replier : Reply(t)

LockSpec == LockInit /\ [][LockNext]_lockVars

-----------------------------------------------------------------------------
WaitsFor(t, u) == wants[t] # "none" /\ owner[wants[t]] = u

(* No threads wait for each other, nor one for itself, although the locks
   are nested in a circle: of its three parts two are the core thread's, which
   is never in both at once (server.cpp:162, 176; world.cpp:132). *)
NoCircularWait == \A S \in SUBSET Thread : S # {} => \E t \in S : \A u \in S : ~WaitsFor(t, u)

=============================================================================
