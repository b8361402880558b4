---------------------------- MODULE Replication ----------------------------
(***************************************************************************)
(* Master/slave replication of                                             *)
(* src/distributed_systems/replication/master_slave.cpp.                   *)
(*                                                                         *)
(* One MasterNode owns a DataStore and ONE ReplicationQueue shared by all  *)
(* of its slaves.  A client thread calls MasterNode::write, which stores   *)
(* into the master's DataStore (under data_mutex) and then pushes the      *)
(* message (under queue_mutex): two critical sections, so two steps.  Each *)
(* slave runs a detached replicate() thread:                               *)
(*                                                                         *)
(*   while (running) { if (!q.empty()) { m = q.pop(); store(m); } sleep; } *)
(*                                                                         *)
(* empty() and pop() lock the queue separately, so a slave that saw a      *)
(* message may find it taken and then wait inside pop() (cv.wait) until    *)
(* another push.  main joins the clients and calls stopSlaves, which       *)
(* clears every slave's running flag; a slave waiting in pop() is not      *)
(* woken by it.                                                            *)
(*                                                                         *)
(* A message is identified by the client that pushed it: each client       *)
(* thread makes one write, of its own value, to a key of its choice.       *)
(***************************************************************************)
EXTENDS Naturals, Sequences, SequencesExt, FiniteSets

CONSTANTS
    Clients,   \* client threads; each calls MasterNode::write once
    Slaves,    \* the SlaveNodes the master was constructed with
    Keys,      \* the keys clients write
    Empty      \* model value: the std::string a missing key reads as

VARIABLES
    master_data,   \* master DataStore::data: key -> value (a client id)
    client_pc,     \* client -> "start", "stored", "done"
    client_key,    \* client -> the key it writes (Empty before it chose)
    queue,         \* ReplicationQueue::messages, front first
    slave_pc,      \* slave -> "loop", "pop", "store", "exited"
    held,          \* slave -> the message it popped and has not stored
    slave_data,    \* slave -> key -> value
    running,       \* slave -> SlaveNode::running
    applied,       \* slave -> messages it stored, in order (history)
    pushed,        \* messages pushed, in order (history)
    main_pc        \* "clients", "stopping", "done"

vars == <<master_data, client_pc, client_key, queue, slave_pc, held,
          slave_data, running, applied, pushed, main_pc>>

Init ==
    /\ master_data = [k \in Keys |-> Empty]
    /\ client_pc = [c \in Clients |-> "start"]
    /\ client_key = [c \in Clients |-> Empty]
    /\ queue = <<>>
    /\ slave_pc = [s \in Slaves |-> "loop"]
    /\ held = [s \in Slaves |-> Empty]
    /\ slave_data = [s \in Slaves |-> [k \in Keys |-> Empty]]
    /\ running = [s \in Slaves |-> TRUE]
    /\ applied = [s \in Slaves |-> <<>>]
    /\ pushed = <<>>
    /\ main_pc = "clients"

-----------------------------------------------------------------------------
(* Clients: MasterNode::write                                              *)

\* A faulty master write that stores the key where the value belongs.
MasterStoreKey(c, k) ==
    /\ client_pc[c] = "start"
    /\ master_data' = [master_data EXCEPT ![k] = k]
    /\ client_key' = [client_key EXCEPT ![c] = k]
    /\ client_pc' = [client_pc EXCEPT ![c] = "stored"]
    /\ UNCHANGED <<queue, slave_pc, held, slave_data, running, applied, pushed, main_pc>>

\* datastore.write(key, value) on the master
MasterStore(c, k) ==
    /\ client_pc[c] = "start"
    /\ master_data' = [master_data EXCEPT ![k] = c]
    /\ client_key' = [client_key EXCEPT ![c] = k]
    /\ client_pc' = [client_pc EXCEPT ![c] = "stored"]
    /\ UNCHANGED <<queue, slave_pc, held, slave_data, running, applied, pushed, main_pc>>

\* replicationQueue.push(msg): append and notify_all
Push(c) ==
    /\ client_pc[c] = "stored"
    /\ queue' = Append(queue, c)
    /\ pushed' = Append(pushed, c)
    /\ client_pc' = [client_pc EXCEPT ![c] = "done"]
    /\ UNCHANGED <<master_data, client_key, slave_pc, held, slave_data, running, applied, main_pc>>

-----------------------------------------------------------------------------
(* Slaves: SlaveNode::replicate                                            *)

\* A faulty loop body that tests replicationQueue.empty() the wrong way
\* round.
PollInverted(s) ==
    /\ slave_pc[s] = "loop"
    /\ slave_pc' = [slave_pc EXCEPT ![s] =
                      IF ~running[s] THEN "exited"
                      ELSE IF queue = <<>> THEN "pop" ELSE "loop"]
    /\ UNCHANGED <<master_data, client_pc, client_key, queue, held, slave_data, running, applied, pushed, main_pc>>

\* one test of the while condition and of replicationQueue.empty(); the
\* sleep that ends an iteration does not change state
Poll(s) ==
    /\ slave_pc[s] = "loop"
    /\ slave_pc' = [slave_pc EXCEPT ![s] =
                      IF ~running[s] THEN "exited"
                      ELSE IF queue # <<>> THEN "pop" ELSE "loop"]
    /\ UNCHANGED <<master_data, client_pc, client_key, queue, held, slave_data, running, applied, pushed, main_pc>>

\* A faulty pop that reads the front and never removes it.
PopNoRemove(s) ==
    /\ slave_pc[s] = "pop"
    /\ queue # <<>>
    /\ held' = [held EXCEPT ![s] = Head(queue)]
    /\ slave_pc' = [slave_pc EXCEPT ![s] = "store"]
    /\ UNCHANGED <<master_data, client_pc, client_key, queue, slave_data, running, applied, pushed, main_pc>>

\* A faulty pop that takes the most recent message.
PopBack(s) ==
    /\ slave_pc[s] = "pop"
    /\ queue # <<>>
    /\ held' = [held EXCEPT ![s] = queue[Len(queue)]]
    /\ queue' = SubSeq(queue, 1, Len(queue) - 1)
    /\ slave_pc' = [slave_pc EXCEPT ![s] = "store"]
    /\ UNCHANGED <<master_data, client_pc, client_key, slave_data, running, applied, pushed, main_pc>>

\* replicationQueue.pop(): cv.wait until the queue is non-empty (the wait
\* is the step being disabled), then take the front
Pop(s) ==
    /\ slave_pc[s] = "pop"
    /\ queue # <<>>
    /\ held' = [held EXCEPT ![s] = Head(queue)]
    /\ queue' = Tail(queue)
    /\ slave_pc' = [slave_pc EXCEPT ![s] = "store"]
    /\ UNCHANGED <<master_data, client_pc, client_key, slave_data, running, applied, pushed, main_pc>>

\* datastore.write(msg.key, msg.value) on the slave
SlaveStore(s) ==
    /\ slave_pc[s] = "store"
    /\ LET m == held[s] IN
       /\ slave_data' = [slave_data EXCEPT ![s][client_key[m]] = m]
       /\ applied' = [applied EXCEPT ![s] = Append(@, m)]
    /\ held' = [held EXCEPT ![s] = Empty]
    /\ slave_pc' = [slave_pc EXCEPT ![s] = "loop"]
    /\ UNCHANGED <<master_data, client_pc, client_key, queue, running, pushed, main_pc>>

-----------------------------------------------------------------------------
(* main: join the clients, sleep, read, stopSlaves, return                *)

\* the joins return; the reads that follow change nothing
JoinClients ==
    /\ main_pc = "clients"
    /\ \A c \in Clients : client_pc[c] = "done"
    /\ main_pc' = "stopping"
    /\ UNCHANGED <<master_data, client_pc, client_key, queue, slave_pc, held, slave_data, running, applied, pushed>>

\* one iteration of stopSlaves: slave->stop()
StopSlave(s) ==
    /\ main_pc = "stopping"
    /\ running[s]
    /\ running' = [running EXCEPT ![s] = FALSE]
    /\ UNCHANGED <<master_data, client_pc, client_key, queue, slave_pc, held, slave_data, applied, pushed, main_pc>>

\* stopSlaves has returned; main returns (the detached threads die with it)
MainReturn ==
    /\ main_pc = "stopping"
    /\ \A s \in Slaves : ~running[s]
    /\ main_pc' = "done"
    /\ UNCHANGED <<master_data, client_pc, client_key, queue, slave_pc, held, slave_data, running, applied, pushed>>

Next ==
    \/ \E c \in Clients : \/ \E k \in Keys : MasterStore(c, k)
                          \/ Push(c)
    \/ \E s \in Slaves : Poll(s) \/ Pop(s) \/ SlaveStore(s) \/ StopSlave(s)
    \/ JoinClients
    \/ MainReturn

Spec == Init /\ [][Next /\ main_pc # "done"]_vars

\* every thread that can take a step eventually does (the OS scheduler);
\* a slave blocked in cv.wait is enabled again only by a push
Fairness ==
    /\ \A c \in Clients : WF_vars(Push(c)) /\ WF_vars(\E k \in Keys : MasterStore(c, k))
    /\ \A s \in Slaves : WF_vars(Poll(s)) /\ WF_vars(Pop(s)) /\ WF_vars(SlaveStore(s))

FairSpec == Spec /\ Fairness

-----------------------------------------------------------------------------
(* Properties                                                              *)

TypeOK ==
    /\ master_data \in [Keys -> Clients \cup {Empty}]
    /\ client_pc \in [Clients -> {"start", "stored", "done"}]
    /\ client_key \in [Clients -> Keys \cup {Empty}]
    /\ queue \in Seq(Clients)
    /\ slave_pc \in [Slaves -> {"loop", "pop", "store", "exited"}]
    /\ held \in [Slaves -> Clients \cup {Empty}]
    /\ slave_data \in [Slaves -> [Keys -> Clients \cup {Empty}]]
    /\ running \in [Slaves -> BOOLEAN]
    /\ applied \in [Slaves -> Seq(Clients)]
    /\ pushed \in Seq(Clients)
    /\ main_pc \in {"clients", "stopping", "done"}

\* the messages a slave has taken off the queue: stored, or held
Taken(s) == IF held[s] = Empty THEN applied[s] ELSE Append(applied[s], held[s])

\* The shared queue hands out every pushed message exactly once: the pushed
\* messages are exactly the ones still queued plus the ones the slaves took,
\* and no message is taken twice, by one slave or by two.
ExactlyOnce ==
    LET takenBag == FoldFunction(LAMBDA seq, acc : acc (+) ToBag(seq),
                                 EmptyBag, [s \in Slaves |-> Taken(s)])
    IN  takenBag (+) ToBag(queue) = ToBag(pushed)

\* the position of message m in the push order
PushPos(m) == CHOOSE i \in 1..Len(pushed) : pushed[i] = m

\* Each slave applies the messages it receives in the order the master
\* pushed them: its history is a subsequence of the push order.
AppliesInPushOrder ==
    \A s \in Slaves :
        \A i, j \in 1..Len(Taken(s)) :
            i < j => PushPos(Taken(s)[i]) < PushPos(Taken(s)[j])

\* Every pushed message is eventually stored by some slave, unless main's
\* stopSlaves has already cleared a running flag.
PushedReplicated ==
    \A c \in Clients :
        client_pc[c] = "done"
            ~> (\E s \in Slaves : c \in ToSet(applied[s])) \/ (\E s \in Slaves : ~running[s])

=============================================================================
