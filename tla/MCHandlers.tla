----------------------------- MODULE MCHandlers -----------------------------
(***************************************************************************)
(* Instances of Handlers for TLC.                                          *)
(***************************************************************************)
EXTENDS Handlers

MCAddrs == {"a"}

\* Command lines with a password file: with and without cluster mode, and with a
\* password in the address.
MCFileOptions ==
    {o \in OptionSet : o.pwdFile /\ ~o.password /\ ~(o.uriPassword /\ o.cluster)}

\* A password file next to redis.password.
MCPasswordOptions == {o \in OptionSet : o.password /\ o.pwdFile /\ ~o.uriPassword}
=============================================================================
