------------------------------ MODULE EnvText ------------------------------
(***************************************************************************)
(* The text of the environment in RAM and how _do_setenv (cmd_nvedit.c)    *)
(* edits it in place: env_data is an array of bytes, one text for each     *)
(* variable with a NUL behind it, an empty text at the end, and behind     *)
(* that whatever was there before.  Env replaces a variable in one step;   *)
(* EditsInPlace says that the loops over the bytes compute just that.      *)
(*                                                                         *)
(* A byte is the variable it belongs to, Nil for NUL, or Torn for an old   *)
(* byte behind the end.  Addresses count from 1.                           *)
(***************************************************************************)
EXTENDS Env

Text(x) == [i \in 1 .. Weight[x.val] |-> IF i < Weight[x.val] THEN x ELSE Nil]

\* The environment: its texts and an empty one, two NULs if there are no others.
Encoded(d) ==
    LET texts[k \in 0 .. Len(d)] == IF k = 0 THEN <<>> ELSE texts[k - 1] \o Text(d[k])
    IN  IF d = <<>> THEN <<Nil, Nil>> ELSE Append(texts[Len(d)], Nil)

\* env_data and the first byte behind it.
Bytes(d) ==
    LET e == Encoded(d)
    IN  e \o [i \in 1 .. EnvSize + 2 - Len(e) |-> Torn]

\* b holds environment d, and the byte behind env_data has not been touched.
Holds(b, d) == LET e == Encoded(d) IN SubSeq(b, 1, Len(e)) = e /\ b[EnvSize + 2] = Torn

\* The first NUL from address i on.
NulFrom(b, i) ==
    CHOOSE j \in i .. EnvSize + 1 : b[j] = Nil /\ \A k \in i .. j - 1 : b[k] # Nil

\* The search goes from text to text until one matches or is empty.
Search(b, n) ==
    LET env[k \in 0 .. EnvSize] ==
            IF k = 0 THEN 1
            ELSE LET e == env[k - 1]
                 IN  IF b[e] = Nil \/ b[e].name = n THEN e ELSE NulFrom(b, e) + 1
    IN  env[EnvSize]

\* *env = *nxt++ until the byte moved and the one to move next are NUL.
MoveUp(b, env, nxt) ==
    LET step[k \in 0 .. EnvSize + 1] ==
            IF k = 0 THEN [buf |-> b, env |-> env, nxt |-> nxt, done |-> FALSE]
            ELSE LET p == step[k - 1]
                     c == [p.buf EXCEPT ![p.env] = p.buf[p.nxt]]
                     last == c[p.env] = Nil /\ c[p.nxt + 1] = Nil
                 IN  IF p.done THEN p
                     ELSE [buf |-> c, env |-> IF last THEN p.env ELSE p.env + 1,
                           nxt |-> p.nxt + 1, done |-> last]
    IN  step[EnvSize + 1]

\* Mutant: the last text is deleted without stepping back to the NUL before it.
DeleteTextNoStepBack(b, n) ==
    LET env == Search(b, n)
        nxt == NulFrom(b, env) + 1
        moved == MoveUp(b, env, nxt)
    IN  IF b[env] = Nil THEN b
        ELSE IF b[nxt] = Nil THEN [b EXCEPT ![env + 1] = Nil]
        ELSE [moved.buf EXCEPT ![moved.env + 1] = Nil]

\* Delete any existing definition.
DeleteText(b, n) ==
    LET env == Search(b, n)
        nxt == NulFrom(b, env) + 1
        moved == MoveUp(b, env, nxt)
    IN  IF b[env] = Nil THEN b
        ELSE IF b[nxt] = Nil
        THEN IF env > 1 THEN [b EXCEPT ![env] = Nil]
             ELSE [b EXCEPT ![env] = Nil, ![env + 1] = Nil]
        ELSE [moved.buf EXCEPT ![moved.env + 1] = Nil]

\* Where a new definition is appended: behind the first two NULs in a row, or at
\* the start of an empty environment.
AppendAt(b) ==
    LET two(i) == b[i] = Nil /\ b[i + 1] = Nil
        env == CHOOSE i \in 1 .. EnvSize + 1 : two(i) /\ \A j \in 1 .. i - 1 : ~two(j)
    IN  IF env > 1 THEN env + 1 ELSE env

\* len <= &env_data[ENV_SIZE] - env
RoomFor(b, v) == Weight[v] + 1 <= (EnvSize + 1) - (AppendAt(b) - 1)

AppendText(b, x) ==
    LET env == AppendAt(b)
        nul == env + Weight[x.val] - 1
    IN  [i \in DOMAIN b |-> IF i \in env .. nul - 1 THEN x
                            ELSE IF i \in {nul, nul + 1} THEN Nil ELSE b[i]]

\* Whatever the environment has come to hold, deleting a definition in place and
\* appending one at the end leaves exactly the other variables, in their order,
\* the test of the room left is that of Env, and no byte behind env_data is
\* written.
EditsInPlace ==
    pc = "run" =>
        \A n \in Names :
            LET old  == Without(ram.data, n)
                text == DeleteText(Bytes(ram.data), n)
            IN  /\ Holds(text, old)
                /\ \A v \in Vals :
                      LET x == [name |-> n, val |-> v]
                      IN  /\ RoomFor(text, v) <=> Used(old) + Weight[v] <= EnvSize
                          /\ RoomFor(text, v) => Holds(AppendText(text, x), Append(old, x))
=============================================================================
