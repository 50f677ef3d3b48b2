------------------------------- MODULE MCCli -------------------------------
(***************************************************************************)
(* Two names share their first letter.  With at most two options added,    *)
(* some letters and names on the command line are unknown.                 *)
(***************************************************************************)
EXTENDS Cli, TLC

CONSTANT attached   \* what stands after an equals sign

MCLetter == "test" :> "t" @@ "tell" :> "t" @@ "out" :> "o"
MCNames == DOMAIN MCLetter

Long(n, val) == [kind |-> "long", name |-> n, value |-> val]
Short(ls) == [kind |-> "short", letters |-> ls]

MCArguments ==
    {[kind |-> "operand"], [kind |-> "end"]}
    \cup {Long("test", Null), Long("tell", attached), Long("out", Null), Long("out", attached)}
    \cup {Short(<<"t">>), Short(<<"o">>), Short(<<"t", "o">>), Short(<<"o", "t">>), Short(<<"u", "t">>)}
============================================================================
