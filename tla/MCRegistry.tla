------------------------------ MODULE MCRegistry -------------------------------
(* Small instances of Registry for TLC: two clients, two rows of a store's  *)
(* name, a server, a store of another tenant, a model with an ambiguous     *)
(* string and one whose fields disagree.                                    *)
EXTENDS Registry

CONSTANTS root, ed, here, there, s1, s2, v1, f1, m1, m2, m3, test, real

Store(t, n, p) == [kind |-> "store", tenant |-> t, name |-> n, platform |-> p]
MCConn == [x \in {s1, s2, v1, f1} |->
  CASE x = s1 -> Store(here, "a", TRUE)
    [] x = s2 -> Store(here, "a", FALSE)
    [] x = f1 -> Store(there, "b", FALSE)
    [] x = v1 -> [kind |-> "server", tenant |-> here, name |-> "a", platform |-> FALSE]]
MCModel == [m \in {m1, m2, m3} |->
  CASE m = m1 -> [provider |-> real, name |-> "x", string |-> "real:x"]
    [] m = m2 -> [provider |-> real, name |-> "y", string |-> "real:x"]
    [] m = m3 -> [provider |-> test, name |-> "z", string |-> "real:z"]]
MCPrefix == [s \in {"real:x", "real:z"} |-> real]
MCAdministers == {<<root, here>>, <<root, there>>, <<ed, here>>}

G(k, r, m) == [kind |-> k, ref |-> r, mode |-> m]
MCGrants == {<<G("store", "a", "ro")>>, <<G("store", "a", "ro"), G("store", s1, "rw")>>,
             <<G("store", f1, "ro"), G("server", "a", "ro")>>}
OneOrNone == {<<G("store", "a", "ro")>>, <<>>}
===============================================================================
