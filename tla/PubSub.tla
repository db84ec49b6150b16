------------------------------- MODULE PubSub -------------------------------
(***************************************************************************)
(* RedisPubSubService on one channel: the map from the channel to its      *)
(* handlers, the subscriber connection, and what Redis holds of it.        *)
(*                                                                         *)
(* SUBSCRIBE and UNSUBSCRIBE travel to Redis in order, and their replies   *)
(* and the messages come back in order; a reply may overtake a message,    *)
(* for the service does nothing on a reply but resolve.  A connection that *)
(* drops loses what is on its way back; ioredis then subscribes again to   *)
(* what it knows, and sends again the commands that have no reply.  No     *)
(* command is refused: maxRetriesPerRequest is null, so that a refusal     *)
(* takes an ACL or a quit.                                                 *)
(***************************************************************************)
EXTENDS Integers, Sequences

CONSTANTS
  Callbacks,  \* handlers that can be subscribed
  MaxCalls,   \* bound: calls of subscribe and unsubscribe
  MaxSent,    \* bound: messages published
  MaxDrops    \* bound: connections that drop

Sent == 1..MaxSent

ASSUME PubSubAssumption ==
  MaxCalls \in Nat /\ MaxSent \in Nat /\ MaxDrops \in Nat

VARIABLES
  list,        \* handlers.get(channel); the map has no empty lists
  commands,    \* commands that have no reply yet, oldest first
  known,       \* ioredis takes the channel for subscribed
  subscribed,  \* and so does Redis, for this connection
  executed,    \* commands that Redis has executed: their replies are under way
  inbox,       \* messages on their way from Redis
  sentCount,   \* messages published so far
  due,         \* history: due[m]: handlers to which message m is owed
  calls,       \* calls of subscribe and unsubscribe so far
  drops        \* connections dropped so far

psVars == <<list, commands, known, subscribed, executed, inbox, sentCount, due,
            calls, drops>>

PSTypeOK ==
  /\ list \in SUBSET Callbacks
  /\ commands \in Seq({"subscribe", "unsubscribe"})
  /\ known \in BOOLEAN
  /\ subscribed \in BOOLEAN
  /\ executed \in 0..Len(commands)
  /\ inbox \in Seq(Sent)
  /\ sentCount \in 0..MaxSent
  /\ due \in [Sent -> SUBSET Callbacks]
  /\ calls \in Nat
  /\ drops \in Nat

PSInit ==
  /\ list = {}
  /\ commands = <<>>
  /\ known = FALSE
  /\ subscribed = FALSE
  /\ executed = 0
  /\ inbox = <<>>
  /\ sentCount = 0
  /\ due = [m \in Sent |-> {}]
  /\ calls = 0
  /\ drops = 0

-----------------------------------------------------------------------------
(* RedisPubSubService.                                                     *)

\* Mutant: the map gets the new handler only.
SubscribeOverwrites(h) ==
  /\ calls < MaxCalls
  /\ list' = {h}
  /\ commands' = IF list = {} THEN Append(commands, "subscribe") ELSE commands
  /\ calls' = calls + 1
  /\ UNCHANGED <<known, subscribed, executed, inbox, sentCount, due, drops>>

\* subscribe: only the first handler of the channel sends a command; the call
\* of another one resolves at once.
Subscribe(h) ==
  /\ calls < MaxCalls
  /\ list' = list \union {h}
  /\ commands' = IF list = {} THEN Append(commands, "subscribe") ELSE commands
  /\ calls' = calls + 1
  /\ UNCHANGED <<known, subscribed, executed, inbox, sentCount, due, drops>>

\* Mutant: the map keeps the handlers.
UnsubscribeLeavesMap ==
  /\ calls < MaxCalls
  /\ commands' = Append(commands, "unsubscribe")
  /\ due' = [m \in Sent |-> {}]
  /\ calls' = calls + 1
  /\ UNCHANGED <<list, known, subscribed, executed, inbox, sentCount, drops>>

Unsubscribe ==
  /\ calls < MaxCalls
  /\ list' = {}
  /\ commands' = Append(commands, "unsubscribe")
  /\ due' = [m \in Sent |-> {}]
  /\ calls' = calls + 1
  /\ UNCHANGED <<known, subscribed, executed, inbox, sentCount, drops>>

\* The 'message' listener calls every handler in the list.
Receive ==
  /\ inbox # <<>>
  /\ due' = [due EXCEPT ![Head(inbox)] = @ \ list]
  /\ inbox' = Tail(inbox)
  /\ UNCHANGED <<list, commands, known, subscribed, executed, sentCount, calls,
                 drops>>

-----------------------------------------------------------------------------
(* The connection and Redis.                                               *)

Execute ==
  /\ executed < Len(commands)
  /\ subscribed' = (commands[executed + 1] = "subscribe")
  /\ executed' = executed + 1
  /\ UNCHANGED <<list, commands, known, inbox, sentCount, due, calls, drops>>

\* The reply to the oldest command.
Replied ==
  /\ executed > 0
  /\ known' = (Head(commands) = "subscribe")
  /\ commands' = Tail(commands)
  /\ executed' = executed - 1
  /\ UNCHANGED <<list, subscribed, inbox, sentCount, due, calls, drops>>

\* publish, by any process.  The handlers are owed the message if every
\* command of theirs has had its reply.
PublishMessage ==
  /\ sentCount < MaxSent
  /\ sentCount' = sentCount + 1
  /\ inbox' = IF subscribed THEN Append(inbox, sentCount') ELSE inbox
  /\ due' = [due EXCEPT ![sentCount'] = IF commands = <<>> THEN list ELSE {}]
  /\ UNCHANGED <<list, commands, known, subscribed, executed, calls, drops>>

\* Mutant: autoResubscribe is off.
DropForgets ==
  /\ drops < MaxDrops
  /\ drops' = drops + 1
  /\ known' = FALSE
  /\ subscribed' = FALSE
  /\ executed' = 0
  /\ inbox' = <<>>
  /\ due' = [m \in Sent |-> {}]
  /\ UNCHANGED <<list, commands, sentCount, calls>>

\* The connection drops and is made again.
Drop ==
  /\ drops < MaxDrops
  /\ drops' = drops + 1
  /\ commands' = IF known THEN <<"subscribe">> \o commands ELSE commands
  /\ known' = FALSE
  /\ subscribed' = FALSE
  /\ executed' = 0
  /\ inbox' = <<>>
  /\ due' = [m \in Sent |-> {}]
  /\ UNCHANGED <<list, sentCount, calls>>

PSNext ==
  \/ \E h \in Callbacks : Subscribe(h)
  \/ Unsubscribe
  \/ Receive
  \/ Execute
  \/ Replied
  \/ PublishMessage
  \/ Drop

PSSpec == PSInit /\ [][PSNext]_psVars

\* The connection is made again for ever (retryStrategy) and carries what is
\* sent.  Nothing is assumed of callers, publishers and drops.
PSFairness ==
  WF_psVars(Execute) /\ WF_psVars(Replied) /\ WF_psVars(Receive)

PSFairSpec == PSSpec /\ PSFairness

-----------------------------------------------------------------------------
(* Properties.                                                             *)

\* What ioredis will take the channel for when it has all replies.
Intended ==
  IF commands = <<>> THEN known ELSE commands[Len(commands)] = "subscribe"

\* The map and the subscription agree once the commands under way are done,
\* through any mix of subscribe, unsubscribe and reconnects: there are handlers
\* if and only if the channel will be subscribed.
MapMatchesChannel == Intended <=> list # {}

\* No message is missed: one published while all commands of the channel are
\* answered is on its way or has reached each handler, unless the channel was
\* unsubscribed or the connection dropped since.
NoMessageMissed ==
  \A m \in Sent : due[m] # {} => \E k \in 1..Len(inbox) : inbox[k] = m

\* Handlers get their channel, whatever was sent before they came and however
\* often the connection drops.
HandlersServed == list # {} ~> subscribed \/ list = {}
=============================================================================
