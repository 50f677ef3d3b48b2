------------------------------ MODULE MCDotenv ------------------------------
(***************************************************************************)
(* A directory with a plain file and two directories, one of them with an  *)
(* environment file, one with a directory below that has another.  Files   *)
(* hold up to MaxLines of the lines below.                                 *)
(*                                                                         *)
(* The pure functions that a load stands on are checked in the same run:   *)
(* either the load begins, or the two strings of TextLaws grow and no load *)
(* ever begins.                                                            *)
(***************************************************************************)
EXTENDS Dotenv, TextLaws, TLC

CONSTANTS top, left, right, deep, plain, near, far, MaxLines

MCDirs == {top, left, right, deep}
MCFiles == {plain, near, far}
MCIsEnv == {near, far}
MCChildren == top :> {plain, left, right} @@ left :> {near, plain} @@ right :> {deep} @@ deep :> {far}

MCNode ==
    <<"d">> :> top @@ <<"d", "/", "r">> :> right @@ <<"/">> :> top @@ <<"x">> :> Null
    @@ <<"c">> :> plain @@ <<"c", ".", "d">> :> left @@ <<"c", ".", "x">> :> plain
    @@ DotEnv :> near
MCPathArgs == DOMAIN MCNode

MCUpper == "a" :> "A"
MCInitialEnvs == {<<"A">> :> <<"x">>}

MCLines ==
    {<<"a", "=", "x">>, <<"A", "=", "y", "=">>, <<" ", "a", " ", "=", " ", "\"", " ", "\"", " ">>,
     <<"b", "=", "'", "x", "\"">>, <<"b", "=", "y", "\r">>, <<"#", "a", "=", "y">>,
     <<";", "b", "=", "x">>, <<"a">>, <<>>, <<"=", "a">>, <<"a", "=", " ">>, <<"b", "=", "'", "'">>}

Joined(ls) == FlattenSeq([i \in DOMAIN ls |-> IF i = 1 THEN ls[i] ELSE <<"\n">> \o ls[i]])
MCContents ==
    LET texts == {Joined(ls) : ls \in BoundedSeq(MCLines, MaxLines)}
    IN  texts \cup {Append(t, "\n") : t \in texts}

MCChars == {"a", ".", "/", "\\", " "}   \* both separators, and a blank to trim

LoadStep == first = <<>> /\ second = <<>> /\ Next /\ UNCHANGED <<first, second>>

TextStep == pc = "called" /\ TextNext /\ UNCHANGED vars

\* At their bound the strings begin again.
TextAgain ==
    /\ Len(first) + Len(second) = MaxChars
    /\ first' = <<>> /\ second' = <<>> /\ UNCHANGED vars

MCInit == Init /\ TextInit

MCSpec == MCInit /\ [][LoadStep \/ TextStep \/ TextAgain]_<<vars, first, second>>
=============================================================================
