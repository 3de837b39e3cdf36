--------------------------- MODULE MCConfigStore ---------------------------
(* Two processes and an editor at one file.                                  *)
EXTENDS ConfigStore, TLC

CONSTANTS w1, w2, p, q

Job(k, n) == [kind |-> k, name |-> n]

\* A profile file with an apply and an init of the same name; a Codex file with
\* two registrations of the same server.
MCJobs == { w1 :> Job("apply", p) @@ w2 :> Job("init", p),
            w1 :> Job("install", p) @@ w2 :> Job("install", p) }
=============================================================================
