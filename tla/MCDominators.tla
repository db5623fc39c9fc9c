---------------------------- MODULE MCDominators ----------------------------
(* All well-formed bodies of a few instructions, and longer ones in which   *)
(* loops, blocks and conditional branches nest.                             *)
EXTENDS Dominators

CONSTANTS MaxShort, MaxLong

I(op) == [op |-> op, to |-> <<>>]
J(op, to) == [op |-> op, to |-> to]

EveryKind == {I(op) : op \in {"block", "loop", "if", "else", "end", "return", "unreachable", "plain"}}
             \cup {J("br", <<d>>) : d \in 0..1} \cup {J("br_if", <<d>>) : d \in 0..1}
             \cup {J("br_table", <<1, 0>>)}

Nesting == {I("loop"), I("if"), I("end"), J("br_if", <<0>>), J("br_if", <<1>>)}

Bodies(kinds, n) == {b \in {Append(s, I("end")) : s \in UNION {[1..k -> kinds] : k \in 0..n}} :
                        WellFormed(b)}

MCPrograms == Bodies(EveryKind, MaxShort) \cup Bodies(Nesting, MaxLong)

\* Bodies in which an "if" may have an "else".
MCConditionals == Bodies({I("if"), I("else"), I("end"), I("plain")}, MaxShort)
=============================================================================
