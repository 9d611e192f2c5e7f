----------------------------- MODULE RedisConn -----------------------------
(***************************************************************************)
(* One redigo connection of the exporter, the redis server at its other    *)
(* end, and the server's other clients.  The library and the server are    *)
(* external: they are modelled from how exporter/keys.go uses them.        *)
(*                                                                         *)
(* Commands and replies are kept as logs.  sent[i] is the i-th command     *)
(* written with Send or Do, replies[i] its reply, and received counts the  *)
(* replies that Receive has handed out: the replies received+1, ... are    *)
(* the ones redigo calls pending.  A command takes effect when the server  *)
(* executes it, any time after it was written (the writer's buffer flushes *)
(* itself when it is full), in the order in which it was written.          *)
(***************************************************************************)
EXTENDS Integers, Sequences

CONSTANTS
    Dbs,         \* the databases the server has
    Keys,        \* the key names of interest
    Values,      \* the shapes of value a key may take here
    Stores,      \* the initial contents of the server to consider
    ACLs,        \* the access control lists to consider: sets of denied
                 \* <<command, key>> pairs, or <<"SELECT", db>>
    MaxChanges   \* bound: writes by other clients

(***************************************************************************)
(* A key holds nothing, a string (text, a number, the empty string, or a   *)
(* HyperLogLog), a collection, or a value of a module's own type.          *)
(***************************************************************************)
Strings == {"text", "number", "empty", "hll"}
Collections == {"list", "set", "zset", "hash", "stream"}
AllValues == {"none", "module"} \cup Strings \cup Collections

ASSUME ValuesAssumption == Values \subseteq AllValues /\ Values # {}
ASSUME ChangesAssumption == MaxChanges \in Nat
ASSUME DbsAssumption == Dbs # {}
ASSUME StoresAssumption == Stores \subseteq [Dbs -> [Keys -> Values]]

VARIABLES
    store,       \* store[d][k] is the value of key k in database d
    selected,    \* the database this connection has selected
    acl,         \* what this connection's user is denied
    sent, replies, received,
    alive,       \* FALSE once the connection is lost
    broken,      \* TRUE once a write has failed
    changes      \* writes by other clients so far

connVars == <<store, selected, acl, sent, replies, received, alive, broken, changes>>

\* Which command gives the size of a collection of type t.
SizeCmd == [list |-> "LLEN", set |-> "SCARD", zset |-> "ZCARD",
            hash |-> "HLEN", stream |-> "XLEN"]

Kinds == {"status", "int", "bulk", "nil", "error"}

\* A command and what it is about (MEMORY USAGE is written MEMORY_USAGE).
Cmd(c, arg) == [cmd |-> c, arg |-> arg]

(***************************************************************************)
(* What the server answers to c when the value of its key is v.  str is    *)
(* the text of a status or bulk reply, as far as the exporter can tell     *)
(* texts apart: type names, a number, the empty string, anything else.     *)
(***************************************************************************)
TypeName(v) == IF v \in Strings THEN "string" ELSE v

Text(v) == IF v \in {"number", "empty"} THEN v ELSE "text"

\* The kind and the text of the answer to command c on a key with value v.
Answer(c, v) ==
    CASE c = "TYPE" -> [kind |-> "status", str |-> TypeName(v)]
      [] c = "MEMORY_USAGE" ->
            [kind |-> IF v = "none" THEN "nil" ELSE "int", str |-> ""]
      [] c = "PFCOUNT" ->
            [kind |-> IF v \in {"none", "hll"} THEN "int" ELSE "error", str |-> ""]
      [] c = "STRLEN" ->
            [kind |-> IF v \in Strings \cup {"none"} THEN "int" ELSE "error", str |-> ""]
      [] c = "GET" ->
            IF v \in Strings THEN [kind |-> "bulk", str |-> Text(v)]
            ELSE [kind |-> IF v = "none" THEN "nil" ELSE "error", str |-> ""]
      [] OTHER ->  \* LLEN, SCARD, ZCARD, HLEN, XLEN
            [kind |-> IF v = "none" \/ (v \in Collections /\ SizeCmd[v] = c)
                      THEN "int" ELSE "error", str |-> ""]

\* A reply remembers the command it answers and the database it ran in: the
\* exporter sees only its kind and its text.
Reply(c, d, a) == [cmd |-> c.cmd, arg |-> c.arg, db |-> d, kind |-> a.kind, str |-> a.str]

Rejection == [kind |-> "error", str |-> ""]

ExecReply(c) ==
    IF <<c.cmd, c.arg>> \in acl THEN Reply(c, selected, Rejection)
    ELSE IF c.cmd = "SELECT"
         THEN Reply(c, selected, IF c.arg \in Dbs THEN [kind |-> "status", str |-> "OK"]
                                                  ELSE Rejection)
         ELSE Reply(c, selected, Answer(c.cmd, store[selected][c.arg]))

ConnInit ==
    /\ store \in Stores
    /\ selected \in Dbs
    /\ acl \in ACLs
    /\ sent = <<>> /\ replies = <<>> /\ received = 0
    /\ alive = TRUE /\ broken = FALSE
    /\ changes = 0

(***************************************************************************)
(* Environment: the server executes the next command, another client       *)
(* writes a key, the connection is lost (with it, the replies that have    *)
(* not reached the reader's buffer).                                       *)
(***************************************************************************)
ServerExec ==
    /\ alive
    /\ Len(replies) < Len(sent)
    /\ LET c == sent[Len(replies) + 1]
           r == ExecReply(c)
       IN  /\ replies' = Append(replies, r)
           /\ selected' = IF c.cmd = "SELECT" /\ r.kind # "error" THEN c.arg ELSE selected
    /\ UNCHANGED <<store, acl, sent, received, alive, broken, changes>>

OtherClient ==
    /\ changes < MaxChanges
    /\ changes' = changes + 1
    /\ \E d \in Dbs, k \in Keys, v \in Values :
          store' = [store EXCEPT ![d][k] = v]
    /\ UNCHANGED <<selected, acl, sent, replies, received, alive, broken>>

ConnLost ==
    /\ alive
    /\ alive' = FALSE
    /\ \E n \in received .. Len(replies) : replies' = SubSeq(replies, 1, n)
    /\ UNCHANGED <<store, selected, acl, sent, received, broken, changes>>

(***************************************************************************)
(* The client side.  A write to a lost connection may fail at once, or go  *)
(* into a buffer and fail later.  The writer keeps its first error: every  *)
(* later Send and Flush fails too.                                         *)
(***************************************************************************)
Send(cmds) ==
    /\ ~broken
    /\ sent' = sent \o cmds
    /\ UNCHANGED broken

Flush == ~broken /\ UNCHANGED <<sent, broken>>

WriteFails ==
    /\ ~alive
    /\ broken' = TRUE
    /\ UNCHANGED sent

(***************************************************************************)
(* Receive hands out the next pending reply; on a lost connection there    *)
(* may be none left, and Receive fails.                                    *)
(***************************************************************************)
Outstanding == Len(sent) - received

Available(n) == received + n <= Len(replies)

NoReply == [cmd |-> "", arg |-> "", db |-> "", kind |-> "error", str |-> ""]

Pending(n) == IF Available(n) THEN replies[received + n] ELSE NoReply

\* The next n replies are there, or no more will come.
Ready(n) == Available(n) \/ ~alive

\* received after Receive was called n times: a failed call takes nothing.
Taken(n) == IF Available(n) THEN received + n ELSE Len(replies)

\* redis.String: status and bulk replies; an error for int, nil, error.
StringOk(r) == r.kind \in {"status", "bulk"}

\* redis.Int64: int replies, and bulk replies that are a number.
Int64Ok(r) == r.kind = "int" \/ (r.kind = "bulk" /\ r.str = "number")
=============================================================================
