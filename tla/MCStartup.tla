----------------------------- MODULE MCStartup -----------------------------
(* Small instances of Startup for TLC. *)
EXTENDS Startup

Key(d, u) == [db |-> d, user |-> u]
Rule(a, n, u, d) == [action |-> a, nets |-> n, users |-> u, dbs |-> d]

\* Two users, and a database that the rules deny to everybody.
ThreeKeys == {Key("d1", "u1"), Key("d1", "u2"), Key("d0", "u1")}
LanRules == <<Rule("deny", {}, {}, {"d0"}), Rule("allow", {"lan"}, {}, {}), Rule("deny", {}, {}, {})>>

\* The second user may be dropped and created again, or lose its password.
Dropped == ("u1" :> {"password"}) @@ ("u2" :> {"password", "absent"})
NoPassword == ("u1" :> {"password"}) @@ ("u2" :> {"password", "null"})
=============================================================================
