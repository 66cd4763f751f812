----------------------------- MODULE DataQuery -----------------------------
(***************************************************************************)
(* The history queries of scpi_handler_data.c.  All transports share one   *)
(* array of samples and one response buffer, both made by the first query, *)
(* and one mutex over them, made by it too.  The mutex is held while the   *)
(* answer is sent, for as long as the transport waits for its client.      *)
(*                                                                         *)
(* What a buffer holds is the query, <<client, number>>, it was filled for.*)
(***************************************************************************)
EXTENDS Integers

CONSTANTS
    Transports,    \* tasks that execute queries, each for its own client
    Blocking,      \* those whose write waits for the client without a limit (tcp_server)
    Parts,         \* in how many pieces an answer is sent
    MaxQueries     \* bound on the queries of a transport

ASSUME QueryAssumption ==
    /\ "null" \notin Transports /\ "none" \notin Transports
    /\ Parts \in Nat /\ MaxQueries \in Nat

VARIABLES
    handle,        \* s_data_response_lock: the transport that made it, or "null"
    owner,         \* [made mutex -> the transport that holds it, or "none"]
    allocated,     \* which of s_data_samples and s_data_response_buffer exist
    data_samples,  \* what s_data_samples holds
    response,      \* what s_data_response_buffer holds
    at,            \* [Transports -> where its query is]
    local,         \* [Transports -> the handle it goes by]
    queries,       \* [Transports -> queries begun]
    left,          \* [Transports -> pieces still to send]
    reading,       \* [Transports -> the client takes what is sent]
    answered       \* history: [Transports -> what the pieces sent were of]

queryVars == <<handle, owner, allocated, data_samples, response, at, local, queries, left, reading, answered>>
sharedVars == <<handle, owner, allocated, data_samples, response>>

Nobody == <<"none", 0>>
Own(c) == <<c, queries[c]>>

QueryTypeOK ==
    /\ handle \in Transports \cup {"null"}
    /\ owner \in [Transports -> Transports \cup {"none"}]
    /\ allocated \subseteq {"samples", "buffer"}
    /\ at \in [Transports -> {"idle", "make", "take", "allocate", "copy", "encode", "send"}]
    /\ local \in [Transports -> Transports \cup {"null"}]
    /\ queries \in [Transports -> 0..MaxQueries]
    /\ left \in [Transports -> 0..Parts]
    /\ reading \in [Transports -> BOOLEAN]
    /\ answered \in [Transports -> SUBSET ((Transports \X (0..MaxQueries)) \cup {Nobody})]
    /\ {data_samples, response} \subseteq (Transports \X (0..MaxQueries)) \cup {Nobody}

QueryInit ==
    /\ handle = "null" /\ owner = [c \in Transports |-> "none"]
    /\ allocated = {} /\ data_samples = Nobody /\ response = Nobody
    /\ at = [c \in Transports |-> "idle"]
    /\ local = [c \in Transports |-> "null"]
    /\ queries = [c \in Transports |-> 0]
    /\ left = [c \in Transports |-> 0]
    /\ reading = [c \in Transports |-> TRUE]
    /\ answered = [c \in Transports |-> {}]

Goto(c, place) == at' = [at EXCEPT ![c] = place]
Give(c) == owner' = [owner EXCEPT ![local[c]] = "none"] /\ Goto(c, "idle")

\* scpi_handler_take_data_response_lock reads the handle in a critical section.
Query(c) ==
    /\ at[c] = "idle" /\ queries[c] < MaxQueries
    /\ queries' = [queries EXCEPT ![c] = @ + 1]
    /\ local' = [local EXCEPT ![c] = handle]
    /\ Goto(c, IF handle = "null" THEN "make" ELSE "take")
    /\ answered' = [answered EXCEPT ![c] = {}]
    /\ UNCHANGED <<sharedVars, left, reading>>

\* Mutant: the candidate is published whatever was published since.
MakeLockUnchecked(c) ==
    /\ at[c] = "make"
    /\ handle' = c /\ local' = [local EXCEPT ![c] = c]
    /\ Goto(c, "take")
    /\ UNCHANGED <<owner, allocated, data_samples, response, queries, left, reading, answered>>

\* The candidate is published unless another one was; the loser's is deleted.
MakeLock(c) ==
    /\ at[c] = "make"
    /\ handle' = IF handle = "null" THEN c ELSE handle
    /\ local' = [local EXCEPT ![c] = handle']
    /\ Goto(c, "take")
    /\ UNCHANGED <<owner, allocated, data_samples, response, queries, left, reading, answered>>

NoMutex(c) ==
    /\ at[c] = "make"
    /\ Goto(c, "idle")
    /\ UNCHANGED <<sharedVars, local, queries, left, reading, answered>>

TakeLock(c) ==
    /\ at[c] = "take" /\ owner[local[c]] = "none"
    /\ owner' = [owner EXCEPT ![local[c]] = c]
    /\ Goto(c, "allocate")
    /\ UNCHANGED <<handle, allocated, data_samples, response, local, queries, left, reading, answered>>

Allocate(c) ==
    /\ at[c] = "allocate"
    /\ allocated' = {"samples", "buffer"}
    /\ Goto(c, "copy")
    /\ UNCHANGED <<handle, owner, data_samples, response, local, queries, left, reading, answered>>

\* Without memory for the buffer the samples are given back too.
NoMemory(c) ==
    /\ at[c] = "allocate" /\ allocated # {"samples", "buffer"}
    /\ allocated' = {}
    /\ Give(c)
    /\ UNCHANGED <<handle, data_samples, response, local, queries, left, reading, answered>>

\* measure_svc_copy_relative_samples into the shared array.
Copy(c) ==
    /\ at[c] = "copy"
    /\ data_samples' = Own(c)
    /\ Goto(c, "encode")
    /\ UNCHANGED <<handle, owner, allocated, response, local, queries, left, reading, answered>>

\* Mutant: the error return keeps the mutex.
CopyFailsLocked(c) ==
    /\ at[c] = "copy"
    /\ Goto(c, "idle")
    /\ UNCHANGED <<sharedVars, local, queries, left, reading, answered>>

CopyFails(c) ==
    /\ at[c] = "copy"
    /\ Give(c)
    /\ UNCHANGED <<handle, allocated, data_samples, response, local, queries, left, reading, answered>>

Encode(c) ==
    /\ at[c] = "encode"
    /\ response' = data_samples
    /\ left' = [left EXCEPT ![c] = Parts]
    /\ Goto(c, "send")
    /\ UNCHANGED <<handle, owner, allocated, data_samples, local, queries, reading, answered>>

\* The writer of a transport copies the buffer piece by piece.
Send(c) ==
    /\ at[c] = "send" /\ left[c] > 0 /\ reading[c]
    /\ answered' = [answered EXCEPT ![c] = @ \cup {response}]
    /\ left' = [left EXCEPT ![c] = @ - 1]
    /\ UNCHANGED <<sharedVars, at, local, queries, reading>>

\* The writer gives up: at once when the client is gone, and after its retries on USB.
GiveUpSending(c) ==
    /\ at[c] = "send" /\ left[c] > 0
    /\ ~reading[c] /\ c \notin Blocking
    /\ left' = [left EXCEPT ![c] = 0]
    /\ UNCHANGED <<sharedVars, at, local, queries, reading, answered>>

Sent(c) ==
    /\ at[c] = "send" /\ left[c] = 0
    /\ Give(c)
    /\ UNCHANGED <<handle, allocated, data_samples, response, local, queries, left, reading, answered>>

\* The client stops taking what is sent and stays connected, or goes on.
Client(c) ==
    /\ reading' = [reading EXCEPT ![c] = ~@]
    /\ UNCHANGED <<sharedVars, at, local, queries, left, answered>>

Proceed(c) ==
    \/ MakeLock(c) \/ NoMutex(c) \/ Allocate(c) \/ NoMemory(c)
    \/ Copy(c) \/ CopyFails(c) \/ Encode(c) \/ Send(c) \/ GiveUpSending(c) \/ Sent(c)

QueryNext == \E c \in Transports : Query(c) \/ TakeLock(c) \/ Proceed(c) \/ Client(c)

\* The tasks run, and one that can take the mutex does so once no other is quicker.
QueryFairness == \A c \in Transports : WF_queryVars(Proceed(c)) /\ WF_queryVars(TakeLock(c))
QuerySpec == QueryInit /\ [][QueryNext]_queryVars /\ QueryFairness
-----------------------------------------------------------------------------
\* No client receives bytes of another's answer, although queries of all transports share
\* one buffer, whichever made the mutex.
AnswerIsOwn == \A c \in Transports : answered[c] \subseteq {Own(c)}

\* A query ends, unless a TCP client keeps not reading an answer: then every later history
\* query, over USB too, waits for it.
Stalled == \E c \in Blocking : at[c] = "send" /\ left[c] > 0 /\ ~reading[c]
QueryReturns == \A c \in Transports : at[c] # "idle" ~> (at[c] = "idle" \/ Stalled)
=============================================================================
