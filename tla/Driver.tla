------------------------------- MODULE Driver -------------------------------
(***************************************************************************)
(* The event loop of src/click/driver.cc.  A single thread polls and calls *)
(* the handlers whose event has happened; a handler may register further   *)
(* handlers, and a one-off handler deletes itself.                         *)
(*                                                                         *)
(* A poll item is a socket or a timer's file descriptor, as in             *)
(* zmq::pollitem_t; what a handler is, and what its Run does, is up to the *)
(* module that extends this one.                                           *)
(***************************************************************************)
EXTENDS Integers, Sequences, SequencesExt

VARIABLES
  event_handlers_, pollitems_,  \* the members of Driver
  event_handlers, pollitems,    \* Run's local vectors
  pos                           \* the two iterators; 0 when the loop polls

driverVars == <<event_handlers_, pollitems_, event_handlers, pollitems, pos>>

(* pollitem_t's events is always ZMQ_POLLIN; revents is false until a poll. *)
SocketItem(socket) == [socket |-> socket, fd |-> 0]
TimerItem(fd) == [socket |-> "nullptr", fd |-> fd]

DriverInit(handlers, items) ==
  /\ event_handlers_ = handlers /\ pollitems_ = items
  /\ event_handlers = << >> /\ pollitems = << >>
  /\ pos = 0

RegisterEventHandler(handler, item) ==
  /\ event_handlers_' = Append(event_handlers_, handler)
  /\ pollitems_' = Append(pollitems_, item)

(* Mutant: the loop tests events, not revents, so every handler is called. *)
PollTriggersAll(pending) ==
  /\ pos = 0
  /\ \E i \in DOMAIN pollitems_ : pollitems_[i] \in pending
  /\ event_handlers' = event_handlers_
  /\ pollitems' = [i \in DOMAIN pollitems_ |-> [item |-> pollitems_[i], revents |-> TRUE]]
  /\ event_handlers_' = << >> /\ pollitems_' = << >>
  /\ pos' = 1

(* The head of the loop, when the items whose event has happened are         *)
(* pending.  poll blocks until there is one and sets every item's revents.   *)
Poll(pending) ==
  /\ pos = 0
  /\ \E i \in DOMAIN pollitems_ : pollitems_[i] \in pending
  /\ event_handlers' = event_handlers_
  /\ pollitems' = [i \in DOMAIN pollitems_ |->
                     [item |-> pollitems_[i], revents |-> pollitems_[i] \in pending]]
  /\ event_handlers_' = << >> /\ pollitems_' = << >>
  /\ pos' = 1

(* The loop is at a handler whose event has happened. *)
Triggered == pos \in DOMAIN pollitems /\ pollitems[pos].revents

(* What the loop does after it called Run. *)
AfterRun(is_one_off) ==
  IF is_one_off
  THEN /\ event_handlers' = RemoveAt(event_handlers, pos)
       /\ pollitems' = RemoveAt(pollitems, pos)
       /\ pos' = pos
  ELSE /\ pos' = pos + 1
       /\ UNCHANGED <<event_handlers, pollitems>>

Skip ==
  /\ pos \in DOMAIN pollitems /\ ~pollitems[pos].revents
  /\ pos' = pos + 1
  /\ UNCHANGED <<event_handlers_, pollitems_, event_handlers, pollitems>>

(* Mutant: the members are assigned, not appended to. *)
EndRoundOverwrites ==
  /\ pos = Len(pollitems) + 1
  /\ event_handlers_' = event_handlers
  /\ pollitems_' = [i \in DOMAIN pollitems |-> pollitems[i].item]
  /\ event_handlers' = << >> /\ pollitems' = << >>
  /\ pos' = 0

(* The tail of the loop: the handlers that are left go behind the ones       *)
(* registered since the poll.                                                *)
EndRound ==
  /\ pos = Len(pollitems) + 1
  /\ event_handlers_' = event_handlers_ \o event_handlers
  /\ pollitems_' = pollitems_ \o [i \in DOMAIN pollitems |-> pollitems[i].item]
  /\ event_handlers' = << >> /\ pollitems' = << >>
  /\ pos' = 0
=============================================================================
