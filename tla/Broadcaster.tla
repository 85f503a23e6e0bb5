----------------------------- MODULE Broadcaster -----------------------------
(***************************************************************************)
(* An API process as its event streams see it: the life of the process     *)
(* (index.ts, container.shutdown) and the BoardBroadcaster, which fans the *)
(* messages of one Redis subscription out to the open streams.             *)
(*                                                                         *)
(* Redis and its client are external: a message goes to the subscriptions  *)
(* of that instant; a connection that is lost takes its messages with it   *)
(* and is subscribed again; subscribe() may be rejected.                   *)
(***************************************************************************)
EXTENDS Naturals, Sequences

VARIABLES phase,     \* of the process
          sub,       \* its subscription to the events channel
          inbox,     \* messages on their way from Redis
          clients    \* ids of the streams the broadcaster writes to

process == <<phase, sub, inbox, clients>>

\* closing: after server.close(), until every connection has ended;
\* stopping: in container.shutdown()
Phases == {"down", "up", "closing", "stopping"}

\* deaf: subscribe() was rejected, which is only logged, so no listener is
\* ever attached
Subscriptions == {"off", "subscribing", "on", "lost", "deaf"}

ProcessInit == phase = "down" /\ sub = "off" /\ inbox = <<>> /\ clients = {}

Serving == phase \in {"up", "closing"}

\* main: listen, and start the broadcaster without waiting for it
Boot ==
  /\ phase = "down" /\ phase' = "up"
  /\ sub' = "subscribing"
  /\ UNCHANGED <<inbox, clients>>

Subscribed ==
  /\ Serving /\ sub \in {"subscribing", "lost"} /\ sub' = "on"
  /\ UNCHANGED <<phase, inbox, clients>>

SubscribeFails ==
  /\ Serving /\ sub = "subscribing" /\ sub' = "deaf"
  /\ UNCHANGED <<phase, inbox, clients>>

RedisLost ==
  /\ sub = "on" /\ sub' = "lost" /\ inbox' = <<>>
  /\ UNCHANGED <<phase, clients>>

\* something is published on the channel
Receive(e) ==
  /\ inbox' = IF sub = "on" THEN Append(inbox, e) ELSE inbox
  /\ UNCHANGED <<phase, sub, clients>>

AddClient(id) == clients' = clients \cup {id} /\ UNCHANGED <<phase, sub, inbox>>

\* Variant: by the viewer, not by the stream.
RemoveViewer(id) ==
  /\ clients' = {c \in clients : c[1] # id[1]}
  /\ UNCHANGED <<phase, sub, inbox>>

RemoveClient(id) == clients' = clients \ {id} /\ UNCHANGED <<phase, sub, inbox>>

\* fanout: the head of the inbox is written to every client; one whose write
\* throws is removed
FanoutTo(gone) ==
  /\ Serving /\ inbox # <<>>
  /\ inbox' = Tail(inbox) /\ clients' = clients \ gone
  /\ UNCHANGED <<phase, sub>>

\* SIGTERM or SIGINT; a second signal is ignored
Signal ==
  /\ phase = "up" /\ phase' = "closing"
  /\ UNCHANGED <<sub, inbox, clients>>

\* the callback of server.close: container.shutdown stops the broadcaster
Shutdown ==
  /\ phase = "closing" /\ phase' = "stopping"
  /\ sub' = "off" /\ inbox' = <<>> /\ clients' = {}

\* process.exit, whatever is open, or a crash
Exit ==
  /\ phase' = "down"
  /\ sub' = "off" /\ inbox' = <<>> /\ clients' = {}
=============================================================================
