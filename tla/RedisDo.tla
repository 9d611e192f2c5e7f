------------------------------ MODULE RedisDo ------------------------------
(***************************************************************************)
(* The server as the sections of a scrape see it that use nothing but Do:  *)
(* each command is sent, executed and answered before the next one, and    *)
(* other clients act between two commands.  The server and the library are *)
(* external: they are modelled from how the sections use them.             *)
(*                                                                         *)
(* The connection is the one the key check used before.  When the server   *)
(* refused a command of that check, error replies may be left unread on    *)
(* it: the next Do sends its command, reads all replies and reports the    *)
(* old error as its own, although the server has executed the command.     *)
(***************************************************************************)
EXTENDS Integers, Sequences, FiniteSets, SequencesExt

CONSTANTS
    Dbs,            \* the numbers of the databases the server has
    Keys,           \* the key names of interest
    Values,         \* what a key may hold here
    Scenarios,      \* the initial servers, with the options to scrape them with
    MaxChanges,     \* bound: steps of other clients
    MaxBatches,     \* bound: batches of one SCAN iteration
    CursorBits      \* the width of an integer of the exporter; cursors are unsigned

(***************************************************************************)
(* A key holds nothing, a list, or a stream with some consumer groups.  A  *)
(* group or a consumer that the server describes in a form the exporter    *)
(* cannot scan is called odd.                                              *)
(***************************************************************************)
GroupsOf == [stream |-> {}, stream1 |-> {"g"}, stream2 |-> {"g", "odd"}]
Streams == DOMAIN GroupsOf
Consumers == {"c", "odd"}

ASSUME DbsAssumption == Dbs \subseteq Nat /\ 0 \in Dbs
Contents == Streams \cup {"none", "list"}

ASSUME KeysAssumption == IsFiniteSet(Keys)
ASSUME ValuesAssumption == Values \subseteq Contents
ASSUME BoundsAssumption == MaxChanges \in Nat /\ MaxBatches \in Nat /\ CursorBits \in Nat \ {0, 1}

VARIABLES
    opts,       \* the options
    store,      \* store[d][k] is what key k of database d holds
    masters,    \* masters[m] is the sentinel's view of the master m
    indexes,    \* the search indexes: whether FT.INFO can be scanned
    selected,   \* the database this connection has selected
    acl,        \* what is denied: commands, and databases to SELECT
    alive,      \* FALSE once the connection is lost
    owed,       \* the keys the SCAN iteration under way has yet to return
    changes,    \* steps of other clients so far
    touched,    \* the <<db, key>> other clients have changed
    pending     \* whether an old error is unread: "no", "yes", or once it has
                \* been reported, the section it was reported to

serverVars == <<opts, store, masters, indexes, acl, changes, touched, alive>>

ServerInit ==
    /\ \E s \in Scenarios :
          /\ opts = s.opts /\ store = s.store /\ acl = s.acl
          /\ masters = s.masters /\ indexes = s.indexes
    /\ selected = 0
    /\ alive = TRUE
    /\ owed = {}
    /\ changes = 0 /\ touched = {}
    /\ pending = "no"

-----------------------------------------------------------------------------
(***************************************************************************)
(* Do: the exporter sees an error when the connection is lost, when the    *)
(* server refuses, or when an old error is unread.  section is the section *)
(* it happens to.                                                          *)
(***************************************************************************)
Refused(c) == ~alive \/ c \in acl.cmds

SelectRefused(d) == ~alive \/ d \in acl.dbs \/ d \notin Dbs

Fails(c) == Refused(c) \/ pending = "yes"

SelectFails(d) == SelectRefused(d) \/ pending = "yes"

ReadPending(section) == pending' = IF pending = "yes" /\ alive THEN section ELSE pending

\* SELECT takes effect even when the exporter is told of an old error.
Selects(d) == selected' = IF SelectRefused(d) THEN selected ELSE d

Present(d) == {k \in Keys : store[d][k] # "none"}

\* SCAN returns each key that stays for the whole iteration, some of them more than
\* once, and may return keys that come or go meanwhile.  A cursor of 0 ends it.  It owes
\* nothing any more once the next call passes another cursor than the one it returned.
Cursors == 0 .. 2 ^ CursorBits - 1

ScanReturns(matching, first, batch, cursor, next) ==
    /\ batch \subseteq matching \cap Present(selected)
    /\ owed' = IF next # cursor THEN {}
               ELSE (IF first THEN matching \cap Present(selected) ELSE owed) \ batch
    /\ cursor = 0 => owed' = {}

-----------------------------------------------------------------------------
(***************************************************************************)
(* The other clients and the network.                                      *)
(***************************************************************************)
WriteKey ==
    /\ \E d \in Dbs, k \in Keys, v \in Values :
          /\ store[d][k] # v
          /\ store' = [store EXCEPT ![d][k] = v]
          /\ owed' = IF d = selected /\ v = "none" THEN owed \ {k} ELSE owed
          /\ touched' = touched \cup {<<d, k>>}
    /\ UNCHANGED <<masters, indexes>>

\* SENTINEL REMOVE of a master, FT.DROPINDEX of an index.
RemoveName ==
    /\ \/ /\ \E m \in DOMAIN masters : masters' = Restrict(masters, DOMAIN masters \ {m})
          /\ UNCHANGED indexes
       \/ /\ \E i \in DOMAIN indexes : indexes' = Restrict(indexes, DOMAIN indexes \ {i})
          /\ UNCHANGED masters
    /\ UNCHANGED <<store, owed, touched>>

OtherClient ==
    /\ changes < MaxChanges
    /\ changes' = changes + 1
    /\ WriteKey \/ RemoveName
    /\ UNCHANGED <<opts, selected, acl, alive, pending>>

Lose ==
    /\ alive
    /\ alive' = FALSE
    /\ UNCHANGED <<opts, store, masters, indexes, selected, acl, owed, changes, touched, pending>>
=============================================================================
