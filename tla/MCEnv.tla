---- MODULE MCEnv ----
(***************************************************************************)
(* Env for TLC: three variables, of which one is the baud rate, one a      *)
(* console and one is defined twice in the default environment, a short (2)*)
(* and a long (3) value, and room for seven units.                         *)
(***************************************************************************)
EXTENDS EnvText

MCNames == {"baudrate", "stdin", "ethaddr"}
MCConsole == {"stdin"}
MCVals == {"short", "long"}
MCWeight == [v \in MCVals |-> IF v = "long" THEN 3 ELSE 2]
MCSupported == {"short"}
MCDefault == <<[name |-> "ethaddr", val |-> "short"], [name |-> "baudrate", val |-> "short"],
               [name |-> "ethaddr", val |-> "long"]>>
====
