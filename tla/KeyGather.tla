----------------------------- MODULE KeyGather -----------------------------
(***************************************************************************)
(* What the check of keys promises, without connection, batches or order:  *)
(* while other clients write, questions are put to the server about keys   *)
(* and each is answered from what the key holds at that moment; a metric   *)
(* is exported only under the key, the database and the name that such an  *)
(* answer is about, and no oftener than the key was asked for.             *)
(*                                                                         *)
(* A server that refuses SELECT or TYPE voids the first half of the        *)
(* promise, never the second.                                              *)
(***************************************************************************)
EXTENDS Integers, Sequences, FiniteSets

CONSTANTS
    Dbs, Keys, Values,
    Answer(_, _),       \* what the server answers to a command about a value
    ValueCmds(_)        \* the commands that may give a metric its value

VARIABLES
    store,      \* store[d][k] is the value of key k in database d
    wanted,     \* the <<db, key>> pairs to check, in any order
    answers,    \* the answers at hand
    refused,    \* the server has refused a command the promise rests on
    metrics,    \* what was exported
    done

vars == <<store, wanted, answers, refused, metrics, done>>

Init ==
    /\ store \in [Dbs -> [Keys -> Values]]
    /\ wanted \in Seq(STRING \X Keys)
    /\ answers = {} /\ metrics = <<>>
    /\ refused = FALSE /\ done = FALSE

\* Another client changes one key.
Write ==
    /\ \E d \in Dbs, k \in Keys : \E v \in Values : store' = [store EXCEPT ![d][k] = v]
    /\ UNCHANGED <<wanted, answers, refused, metrics, done>>

\* A question is answered: with the truth of this moment, or with an error.
Truth(a) ==
    \/ a.kind = "error"
    \/ LET t == Answer(a.cmd, store[a.db][a.arg]) IN a.kind = t.kind /\ a.str = t.str

Ask ==
    /\ \A a \in answers' \ answers : a.db \in Dbs /\ a.arg \in Keys /\ Truth(a)
    /\ answers \subseteq answers'
    /\ UNCHANGED <<store, wanted, refused, metrics, done>>

\* Answers are used up, or lost with the connection.
Forget ==
    /\ answers' \subseteq answers
    /\ UNCHANGED <<store, wanted, refused, metrics, done>>

Refuse ==
    /\ refused' = TRUE
    /\ UNCHANGED <<store, wanted, answers, metrics, done>>

\* A metric says what an answer to the right question says.
Backed(m) ==
    /\ m.from \in answers
    /\ m.from.arg = m.key /\ m.from.db = m.db
    /\ m.from.cmd \in ValueCmds(m.name)
    /\ m.from.kind # "error"

Times(s, P(_)) == Cardinality({i \in DOMAIN s : P(s[i])})

Export ==
    /\ ~done
    /\ Len(metrics') > Len(metrics)
    /\ SubSeq(metrics', 1, Len(metrics)) = metrics
    /\ \A i \in Len(metrics) + 1 .. Len(metrics') :
          LET m == metrics'[i]
              SameSeries(n) == n.name = m.name /\ n.db = m.db /\ n.key = m.key
              SameKey(w) == w = <<m.db, m.key>>
          IN  /\ refused \/ Backed(m)
              /\ Times(metrics', SameSeries) <= Times(wanted, SameKey)
    /\ UNCHANGED <<store, wanted, answers, refused, done>>

Finish ==
    /\ done' = TRUE
    /\ UNCHANGED <<store, wanted, answers, refused, metrics>>

Next == Write \/ Ask \/ Forget \/ Refuse \/ Export \/ Finish

Spec == Init /\ [][Next]_vars
=============================================================================
