---------------------------- MODULE MCGrantPath -----------------------------
(***************************************************************************)
(* Values for the constants of GrantPath: directory trees of five names    *)
(* with links that dangle, leave /dev, lead through a directory or form a  *)
(* cycle; the changes udev makes to them; policies and labels; runtime     *)
(* programs that can be wrapped and ones that cannot.                      *)
(***************************************************************************)
EXTENDS GrantPath

A == <<"a">>
B == <<"b">>
D == <<"d">>
L == <<"d", "l">>
X == <<"d", "x">>

MCOrder == <<A, B, D, L, X>>

Tree(a, b, l, x) == A :> a @@ B :> b @@ D :> Dir @@ L :> l @@ X :> x
Device(id) == Node("device", id, <<>>)
Link(target) == Node("link", 0, target)
Absolute(target) == Node("absolute", 0, target)
File == Node("file", 0, <<>>)
Outside == Node("outside", 0, <<>>)
Scene(tree, one, two) == [dev |-> tree, sys |-> 1 :> one @@ 2 :> two]

MCScenes == {
    Scene(Tree(Device(1), Device(2), Link(B), NoNode), A, B),
    Scene(Tree(Device(1), NoNode, Absolute(X), Absolute(A)), L, B),
    Scene(Tree(Device(1), Device(2), Link(A), Absolute(B)), A, B),
    Scene(Tree(Device(1), File, Absolute(X), Absolute(A)), A, NoName),
    Scene(Tree(Outside, Link(D), Device(2), Link(L)), A, L),
    Scene(Tree(Link(B), Link(A), Device(1), Absolute(X)), L, B)}

MCPuts == {[name |-> X, node |-> Device(1)], [name |-> A, node |-> Device(2)],
           [name |-> D, node |-> Link(<<>>)], [name |-> L, node |-> NoNode]}

MCRenames == {[id |-> 1, name |-> B]}

Glob(names) == [valid |-> TRUE, names |-> names]
Malformed == [valid |-> FALSE, names |-> {}]

MCPolicies ==
    UNION {Global("all", {}, {}), Global("opt-in", {Glob({A, B})}, {}),
           Global("all", {}, {Glob({X})})}

Label(enable, allow, deny) == [enable |-> enable, allow |-> allow, deny |-> deny]

MCLabels == {Label("absent", {}, {}), Label("true", {}, {Glob({L})}),
             Label("false", {}, {}), Label("true", {Malformed}, {})}

Mount(kind, device, name) == [kind |-> kind, dev |-> device, source |-> name]

MCMounts == {<<Mount("bind", TRUE, <<>>)>>,
             <<Mount("bind", TRUE, D), Mount("bind", TRUE, A)>>,
             <<Mount("bind", TRUE, B), Mount("volume", TRUE, A)>>,
             <<Mount("bind", FALSE, A)>>}

Allow(kind, major, minor, access) ==
    [allow |-> TRUE, kind |-> kind, major |-> major, minor |-> minor, access |-> access]

Deny(kind, major, minor, access) ==
    [Allow(kind, major, minor, access) EXCEPT !.allow = FALSE]

Answer(value) == <<Alu32Imm("MOV", 0, value), Exit>>

Runc ==
    ContextLoads \o Block(Allow("c", 8, 1, {"r", "w"}))
    \o Block(Deny("b", 9, Wildcard, {"m"})) \o Answer(0)

Program(slots, known, maps) ==
    [slots |-> slots, meta |-> [known |-> known, maps |-> maps]]

\* A call, a sign extension with and without its offset, a wide load, a map that is
\* known or not, and a signed division.
MCPrograms == {
    Program(Answer(0), TRUE, 0),
    Program(Answer(1), FALSE, 0),
    Program(Runc, TRUE, 0),
    Program(<<Instr("Jump", "CALL", "imm", 0, 0, 0, 1)>> \o Answer(1), TRUE, 0),
    Program(<<Instr("Alu64", "MOV", "reg", 2, 2, 8, 0)>> \o Answer(1), TRUE, 0),
    Program(<<Instr("Ld", "IMM", "DWORD", 2, 0, 0, 7), SecondHalf(3)>> \o Answer(1), TRUE, 0),
    Program(<<Instr("Alu64", "MOV", "reg", 2, 2, 1, 0)>> \o Answer(1), TRUE, 1),
    Program(<<Instr("Alu", "DIV", "imm", 0, 0, 1, 2)>> \o Answer(1), TRUE, 0)}

MCOtherRules == {
    <<Allow("c", 8, Wildcard, {"r"})>>,
    <<Allow("a", Wildcard, Wildcard, AllAccess), Deny("b", 8, 0, {"w", "m"})>>}

MCChanges == {[imm |-> 1, off |-> 0], [imm |-> 0, off |-> 1], [imm |-> -1, off |-> 0]}

MCRequests == [kind : {"b", "c"}, access : SUBSET AllAccess, major : {8, 9}, minor : {1, 2}]

=============================================================================
