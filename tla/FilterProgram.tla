--------------------------- MODULE FilterProgram ---------------------------
(***************************************************************************)
(* The device filter programs of cgroup v2 as sequences of instructions:   *)
(* cgroup/asm.rs (decoding and encoding), cgroup/ebpf.rs (the rule         *)
(* blocks), cgroup/owned.rs (the wrapper, its parser and the gate) and the *)
(* step of cgroup/v2plan.rs that turns an attached program into a wrapper. *)
(*                                                                         *)
(* A program is a sequence of 8-byte slots, a slot a record of its fields: *)
(* opcode class, operation and argument (the size of a load, the source of *)
(* anything else), registers, offset and immediate.  `high` is the upper   *)
(* half of a decoded wide load and 0 in every slot.  What fails returns    *)
(* the empty set, what succeeds the set of its one result.                 *)
(***************************************************************************)
EXTENDS Integers, Sequences, SequencesExt, FiniteSetsExt, Bitwise

Instr(class, op, arg, dst, src, off, imm) ==
  [class |-> class, op |-> op, arg |-> arg, dst |-> dst, src |-> src,
   off |-> off, imm |-> imm, high |-> 0]

LoadMem(dst, src, off, size) == Instr("LdX", "MEM", size, dst, src, off, 0)
Alu32Imm(op, dst, value) == Instr("Alu", op, "imm", dst, 0, 0, value)
Alu32Reg(op, dst, src) == Instr("Alu", op, "reg", dst, src, 0, 0)
JumpImm(op, dst, value, off) == Instr("Jump", op, "imm", dst, 0, off, value)
JumpReg(op, dst, src, off) == Instr("Jump", op, "reg", dst, src, off, 0)
Exit == Instr("Jump", "EXIT", "imm", 0, 0, 0, 0)

\* The second slot of a wide load: zero but for the upper half.
SecondHalf(high) == Instr("Ld", "IMM", "WORD", 0, 0, 0, high)

IsAlu(i) == i.class \in {"Alu", "Alu64"}
IsJump(i) == i.class \in {"Jump", "Jump32"}

\* A 32-bit exit or call is no instruction.
JumpOp(i) ==
  IF i.class = "Jump32" /\ i.op \in {"EXIT", "CALL"} THEN "INVALID" ELSE i.op

IsDwordLoad(i) == i.class = "Ld" /\ i.op = "IMM" /\ i.arg = "DWORD"
IsBuiltinCall(i) == IsJump(i) /\ JumpOp(i) = "CALL" /\ i.src = 0 /\ i.dst = 0

\* The operations the wire spells as another one with an offset.
ExtendedOps ==
  {<<"DIV", 1, "SDIV">>, <<"MOD", 1, "SMOD">>, <<"MOV", 8, "MOVSX8">>,
   <<"MOV", 16, "MOVSX16">>, <<"MOV", 32, "MOVSX32">>}

PlatformShift == 2^28

(***************************************************************************)
(* Decoding and encoding.                                                  *)
(***************************************************************************)
\* The instruction at the head of raw.
DecodeOne(raw) ==
  LET slot == Head(raw)
      extended == {e \in ExtendedOps : e[1] = slot.op /\ e[2] = slot.off}
  IN CASE IsBuiltinCall(slot) -> {s \in {slot} : s.imm < PlatformShift}
       [] IsAlu(slot) /\ extended # {} ->
            {[slot EXCEPT !.op = e[3], !.off = 0] : e \in extended}
       [] IsDwordLoad(slot) ->
            {[slot EXCEPT !.high = half.imm] :
               half \in {h \in ToSet(SubSeq(raw, 2, Min({2, Len(raw)}))) :
                           h = SecondHalf(h.imm)}}
       [] OTHER -> {slot}

Width(i) == IF IsDwordLoad(i) THEN 2 ELSE 1

Decode(raw) ==
  LET second(k) == k > 1 /\ Width(raw[k - 1]) = 2
      heads == SelectSeq([k \in DOMAIN raw |-> k], LAMBDA k : ~ second(k))
      decoded(k) == DecodeOne(SubSeq(raw, k, Len(raw)))
  IN IF \E k \in ToSet(heads) : decoded(k) = {}
       THEN {}
       ELSE {[n \in DOMAIN heads |-> CHOOSE i \in decoded(heads[n]) : TRUE]}

\* The slots of an instruction.  An operation that is not an extended one is
\* written with offset 0.
Encode(i) ==
  LET extended == {e \in ExtendedOps : e[3] = i.op}
  IN CASE IsBuiltinCall(i) ->
            {<<c>> : c \in {x \in {i} : (x.imm \div PlatformShift) % 8 = 0}}
       [] IsAlu(i) /\ extended # {} ->
            {<<[i EXCEPT !.op = e[1], !.off = e[2]]>> :
               e \in {x \in extended : i.off = 0}}
       [] IsAlu(i) /\ extended = {} -> {<<[i EXCEPT !.off = 0]>>}
       [] IsDwordLoad(i) -> {<<[i EXCEPT !.high = 0], SecondHalf(i.high)>>}
       [] OTHER -> {<<i>>}

CanonicalBytes(instructions) ==
  LET slots == [k \in DOMAIN instructions |-> Encode(instructions[k])]
      first(k) == CHOOSE s \in slots[k] : TRUE
      places == SelectSeq([n \in 1..2 * Len(instructions) |->
                             <<(n + 1) \div 2, 2 - (n % 2)>>],
                          LAMBDA p : p[2] <= Len(first(p[1])))
  IN IF \E k \in DOMAIN slots : slots[k] = {}
       THEN {}
       ELSE {[n \in DOMAIN places |-> first(places[n][1])[places[n][2]]]}

(***************************************************************************)
(* The rule blocks.  A rule's access is a set of letters, a negative major *)
(* or minor the wildcard.  The rules that get here are well formed: they   *)
(* come from processor/rules.rs or from the parser below.                  *)
(***************************************************************************)
Wildcard == -1
AccessBit(letter) == CASE letter = "m" -> 1 [] letter = "r" -> 2 [] letter = "w" -> 4
AllAccess == {"r", "w", "m"}
AccessMask(access) == MapThenSumSet(AccessBit, access)
TypeCode(kind) == IF kind = "b" THEN 1 ELSE 2

\* R2 the type, R3 the access, R4 the major, R5 the minor.
ContextLoads ==
  <<LoadMem(2, 1, 0, "HALF"), LoadMem(3, 1, 0, "WORD"), Alu32Imm("RSH", 3, 16),
    LoadMem(4, 1, 4, "WORD"), LoadMem(5, 1, 8, "WORD")>>

\* Mutant: an overlap with the rule's access is enough.
FaultyAccessCheck(access) ==
  <<Alu32Reg("MOV", 6, 3), Alu32Imm("AND", 6, AccessMask(access)),
    JumpImm("JEQ", 6, 0, 0)>>

\* Contained in the rule's access: all of the request, not a part of it.
AccessCheck(access) ==
  <<Alu32Reg("MOV", 6, 3), Alu32Imm("AND", 6, AccessMask(access)),
    JumpReg("JNE", 6, 3, 0)>>

\* One rule's block.  Every check that fails jumps to what follows the block.
Block(rule) ==
  LET given(condition, steps) == IF condition THEN steps ELSE <<>>
      steps ==
        given(rule.kind # "a", <<JumpImm("JNE", 2, TypeCode(rule.kind), 0)>>)
        \o given(rule.access # AllAccess, AccessCheck(rule.access))
        \o given(rule.major >= 0, <<JumpImm("JNE", 4, rule.major, 0)>>)
        \o given(rule.minor >= 0, <<JumpImm("JNE", 5, rule.minor, 0)>>)
        \o <<Alu32Imm("MOV", 0, IF rule.allow THEN 1 ELSE 0), Exit>>
  IN [k \in DOMAIN steps |->
        IF IsJump(steps[k]) /\ steps[k].op # "EXIT"
          THEN [steps[k] EXCEPT !.off = Len(steps) - k]
          ELSE steps[k]]

MatchesAll(rule) ==
  rule.kind = "a" /\ rule.access = AllAccess /\ rule.major < 0 /\ rule.minor < 0

\* Appended from the last rule to the first; nothing follows a wildcard.
Blocks(rules) ==
  LET reversed == Reverse(rules)
      wild == {k \in DOMAIN reversed : MatchesAll(reversed[k])}
      kept == IF wild = {} THEN reversed ELSE SubSeq(reversed, 1, Min(wild))
  IN FlattenSeq([k \in DOMAIN kept |-> Block(kept[k])])

(***************************************************************************)
(* The wrapper: header, context loads, rule blocks, trailer, original.     *)
(* The nonce's two words are one here, and so are the digest's four.       *)
(***************************************************************************)
MagicLo == 1001
MagicHi == 1002
FormatVersion == 1
HeaderLen == 6
TrailerLen == 3

Marker(value) == Alu32Imm("MOV", 0, value)
IsMarker(i) == i = Marker(i.imm)

\* External: SHA-256, a checksum here.
RECURSIVE Weighed(_, _, _)
Weighed(slots, from, to) ==
  LET middle == (from + to) \div 2
      slot == slots[from]
  IN IF from = to
       THEN (7 * slot.dst + 5 * slot.src + 3 * slot.off + slot.imm) * from
       ELSE Weighed(slots, from, middle) + Weighed(slots, middle + 1, to)

Digest(original) ==
  IF original = <<>> THEN 0 ELSE Weighed(original, 1, Len(original)) % 2^16

EmitOwned(rules, nonce, original) ==
  LET blocks == Blocks(rules)
      header == <<MagicLo, MagicHi, FormatVersion, nonce, Digest(original),
                  HeaderLen + Len(ContextLoads) + Len(blocks)>>
      trailer == <<MagicLo, MagicHi, nonce>>
      markers(values) == [k \in DOMAIN values |-> Marker(values[k])]
  IN UNION {CanonicalBytes(markers(header) \o ContextLoads \o blocks
                           \o markers(trailer) \o instructions) :
              instructions \in Decode(original) \ {<<>>}}

(***************************************************************************)
(* The parser.  Parsed is what is left to read and the rule so far.        *)
(***************************************************************************)
Tail1(s) == SubSeq(s, 2, Len(s))
Starts(s, test(_)) == s # <<>> /\ test(s[1])
IsCheck(i, dst) == i.class = "Jump" /\ i.op = "JNE" /\ i.arg = "imm" /\ i.dst = dst

ParseType(p) ==
  IF ~ Starts(p.rest, LAMBDA i : IsCheck(i, 2))
    THEN {p}
    ELSE {[p EXCEPT !.rest = Tail1(@), !.rule.kind = k] :
            k \in {x \in {"b", "c"} : p.rest[1].imm = TypeCode(x)}}

ParseAccess(p) ==
  LET scratch(i, op, arg) ==
        i.class = "Alu" /\ i.op = op /\ i.arg = arg /\ i.dst = 6
  IN IF ~ Starts(p.rest, LAMBDA i : scratch(i, "MOV", "reg")) THEN {p}
     ELSE IF Len(p.rest) >= 3 /\ scratch(p.rest[2], "AND", "imm")
     THEN {[p EXCEPT !.rest = SubSeq(@, 4, Len(@)),
                     !.rule.access = {x \in AllAccess :
                        (p.rest[2].imm & AccessBit(x)) # 0}]}
     ELSE {}

ParseMajor(p) ==
  IF Starts(p.rest, LAMBDA i : IsCheck(i, 4))
    THEN [p EXCEPT !.rest = Tail1(@), !.rule.major = p.rest[1].imm]
    ELSE p

ParseMinor(p) ==
  IF Starts(p.rest, LAMBDA i : IsCheck(i, 5))
    THEN [p EXCEPT !.rest = Tail1(@), !.rule.minor = p.rest[1].imm]
    ELSE p

ParseVerdict(p) ==
  {[p EXCEPT !.rest = SubSeq(@, 3, Len(@)), !.rule.allow = v] :
     v \in {x \in BOOLEAN :
             /\ Len(p.rest) >= 2
             /\ p.rest[1] = Marker(IF x THEN 1 ELSE 0)
             /\ p.rest[2].class = "Jump"
             /\ p.rest[2].op = "EXIT"
             /\ p.rest[2].arg = "imm"}}

RECURSIVE ParseRuleBlocks(_)
ParseRuleBlocks(rest) ==
  IF rest = <<>>
    THEN {<<>>}
    ELSE LET any == [allow |-> FALSE, kind |-> "a", major |-> Wildcard,
                     minor |-> Wildcard, access |-> AllAccess]
             parsed == UNION {ParseVerdict(ParseMinor(ParseMajor(q))) :
                         q \in UNION {ParseAccess(r) :
                           r \in ParseType([rest |-> rest, rule |-> any])}}
         IN UNION {{earlier \o <<p.rule>> : earlier \in ParseRuleBlocks(p.rest)} :
                     p \in parsed}

\* What a program with a header claims to be: one claim, or none when its
\* parts do not fit together.
Claims(instructions) ==
  LET field(k) == instructions[k].imm
      blockLen == field(6)
      trailer == SubSeq(instructions, blockLen + 1, blockLen + TrailerLen)
      original == CanonicalBytes(SubSeq(instructions, blockLen + TrailerLen + 1,
                                        Len(instructions)))
      rules == ParseRuleBlocks(SubSeq(instructions,
                 HeaderLen + Len(ContextLoads) + 1, blockLen))
  IN IF /\ Len(instructions) >= HeaderLen
        /\ \A k \in 1..HeaderLen : IsMarker(instructions[k])
        /\ field(2) = MagicHi
        /\ field(3) = FormatVersion
        /\ blockLen >= HeaderLen + Len(ContextLoads)
        /\ blockLen + TrailerLen < Len(instructions)
        /\ trailer = <<Marker(MagicLo), Marker(MagicHi), Marker(field(4))>>
       THEN {c \in {[nonce |-> field(4), rules |-> r, original |-> o] :
                      r \in rules, o \in original} : Digest(c.original) = field(5)}
       ELSE {}

\* Mutant: what parses is owned, whether or not it regenerates.
FaultyValidateOwned(instructions, raw) == Claims(instructions)

\* The claim holds when every slot of the program regenerates from it.
ValidateOwned(instructions, raw) ==
  {c \in Claims(instructions) : EmitOwned(c.rules, c.nonce, c.original) = {raw}}

\* A program is bare, owned or a conflict; a conflict is never changed.
Bare(raw) == [is |-> "bare", nonce |-> 0, rules |-> <<>>, original |-> raw]
Conflict == [is |-> "conflict", nonce |-> 0, rules |-> <<>>, original |-> <<>>]
Owned(claim) == [is |-> "owned", nonce |-> claim.nonce, rules |-> claim.rules,
                 original |-> claim.original]

\* The one result there is; none is a conflict.
Only(found) == IF found = {} THEN Conflict ELSE CHOOSE f \in found : TRUE

ParseDecoded(instructions, raw) ==
  IF Starts(instructions, LAMBDA i : i = Marker(MagicLo))
    THEN Only({Owned(claim) : claim \in ValidateOwned(instructions, raw)})
    ELSE Bare(raw)

ParseOwned(raw) == Only({ParseDecoded(instructions, raw) : instructions \in Decode(raw)})

\* A wrapper around a wrapper is stripped to the innermost original.
Stripped(outer, inner) ==
  IF inner.is = "conflict" THEN Conflict ELSE [outer EXCEPT !.original = inner.original]

RECURSIVE Innermost(_)
Innermost(outer) ==
  IF outer.is # "owned" THEN outer
  ELSE Stripped(outer, Innermost(ParseOwned(outer.original)))

ParseInnermost(raw) == Innermost(ParseOwned(raw))

(***************************************************************************)
(* The gate: which originals may be loaded again.  meta says whether the   *)
(* kernel tells the program's maps and how many there are.                 *)
(***************************************************************************)
InSubset(i) ==
  CASE i.class = "LdX" -> i.op = "MEM" /\ i.src = 1 /\ i.off \in {0, 4, 8}
    [] IsAlu(i) -> i.op \in {"MOV", "AND", "OR", "RSH", "LSH"} /\ i.off = 0
    [] IsJump(i) -> \/ JumpOp(i) \in {"JEQ", "JNE", "JGT", "JGE", "JLT", "JLE", "JSET",
                                     "JSGT", "JSGE", "JSLT", "JSLE"}
                    \/ JumpOp(i) \in {"EXIT", "JA"} /\ i.class = "Jump"
    [] OTHER -> FALSE

\* Mutant: a program with maps passes for one without.
FaultyCheckWrappable(instructions, meta) ==
  /\ instructions # <<>>
  /\ \A k \in DOMAIN instructions :
       /\ InSubset(instructions[k])
       /\ IsJump(instructions[k]) /\ JumpOp(instructions[k]) # "EXIT" =>
            k + instructions[k].off + 1 \in DOMAIN instructions

CheckWrappable(instructions, meta) ==
  /\ meta.known
  /\ meta.maps = 0
  /\ instructions # <<>>
  /\ \A k \in DOMAIN instructions :
       /\ InSubset(instructions[k])
       /\ IsJump(instructions[k]) /\ JumpOp(instructions[k]) # "EXIT" =>
            k + instructions[k].off + 1 \in DOMAIN instructions

Gate(original, meta) == \E i \in Decode(original) : CheckWrappable(i, meta)

\* An original that may not be loaded again is not unwrapped either.
Gated(found, meta) ==
  IF found.is = "owned" /\ ~ Gate(found.original, meta) THEN Conflict ELSE found

\* One attached program, from the dump the kernel gives of it.
Classify(xlated, meta) ==
  Only({Gated(ParseInnermost(raw), meta) :
          raw \in UNION {CanonicalBytes(i) : i \in Decode(xlated) \ {<<>>}}})

\* The program that takes the place of an attached one: the wrapper of its
\* lineage, a bare program's under a nonce of its own.  None when anything
\* about the attached one is in doubt.
Rewrapped(found, meta, rules, fresh) ==
  CASE found.is = "owned" -> EmitOwned(rules, found.nonce, found.original)
    [] found.is = "bare" /\ Gate(found.original, meta) ->
         EmitOwned(rules, fresh, found.original)
    [] OTHER -> {}

Wrapped(xlated, meta, rules, fresh) ==
  Rewrapped(Classify(xlated, meta), meta, rules, fresh)

(***************************************************************************)
(* External: the kernel runs a program on a request [kind, access, major,  *)
(* minor].  Undecided is a run that leaves the program or its subset.      *)
(***************************************************************************)
Undecided == -1

ContextWord(request, off) ==
  CASE off = 0 -> AccessMask(request.access) * 2^16 + TypeCode(request.kind)
    [] off = 4 -> request.major
    [] off = 8 -> request.minor

Loaded(request, i) ==
  ContextWord(request, i.off) % (CASE i.arg = "WORD" -> 2^30
                                   [] i.arg = "HALF" -> 2^16
                                   [] i.arg = "BYTE" -> 2^8)

Operand(i, regs) == IF i.arg = "reg" THEN regs[i.src] ELSE i.imm

Computed(i, regs) ==
  CASE i.op = "MOV" -> Operand(i, regs)
    [] i.op = "AND" -> regs[i.dst] & Operand(i, regs)
    [] i.op = "OR" -> regs[i.dst] | Operand(i, regs)
    [] i.op = "RSH" -> regs[i.dst] \div 2^Operand(i, regs)
    [] i.op = "LSH" -> regs[i.dst] * 2^Operand(i, regs)

Taken(i, regs) ==
  \/ i.op = "JA"
  \/ i.op = "JEQ" /\ regs[i.dst] = Operand(i, regs)
  \/ i.op = "JNE" /\ regs[i.dst] # Operand(i, regs)
  \/ i.op \in {"JGT", "JSGT"} /\ regs[i.dst] > Operand(i, regs)
  \/ i.op \in {"JGE", "JSGE"} /\ regs[i.dst] >= Operand(i, regs)
  \/ i.op \in {"JLT", "JSLT"} /\ regs[i.dst] < Operand(i, regs)
  \/ i.op \in {"JLE", "JSLE"} /\ regs[i.dst] <= Operand(i, regs)
  \/ i.op = "JSET" /\ (regs[i.dst] & Operand(i, regs)) # 0

\* One instruction; a machine that stops holds its verdict.
Executed(program, machine, request) ==
  LET i == program[machine.pc]
      regs == machine.regs
      set(value) == [machine EXCEPT !.pc = @ + 1, !.regs[i.dst] = value]
      stop(verdict) == [machine EXCEPT !.runs = FALSE, !.verdict = verdict]
  IN IF machine.pc \notin DOMAIN program THEN stop(Undecided)
     ELSE IF ~ InSubset(i) THEN stop(Undecided)
     ELSE IF i.class = "LdX" THEN set(Loaded(request, i))
     ELSE IF IsAlu(i) THEN set(Computed(i, regs))
     ELSE IF i.op = "EXIT" THEN stop(regs[0])
     ELSE [machine EXCEPT !.pc = @ + 1 + (IF Taken(i, regs) THEN i.off ELSE 0)]

RECURSIVE ExecutedBy(_, _, _, _)
ExecutedBy(program, machine, request, steps) ==
  IF steps = 1 THEN Executed(program, machine, request)
  ELSE LET half == steps \div 2
           first == ExecutedBy(program, machine, request, half)
       IN IF first.runs THEN ExecutedBy(program, first, request, steps - half)
          ELSE first

\* Jumps lead forward, so a run ends within the program's length.
Run(program, request) ==
  ExecutedBy(program, [pc |-> 1, regs |-> [r \in 0..10 |-> 0], runs |-> TRUE,
                       verdict |-> Undecided], request, Len(program)).verdict

\* What a set of rules says: its last match decides, the original the rest.
Matches(rule, request) ==
  /\ rule.kind \in {"a", request.kind}
  /\ request.access \subseteq rule.access
  /\ rule.major \in {Wildcard, request.major}
  /\ rule.minor \in {Wildcard, request.minor}

Verdict(rules, original, request) ==
  LET matching == {k \in DOMAIN rules : Matches(rules[k], request)}
  IN IF matching = {} THEN Run(original, request)
     ELSE IF rules[Max(matching)].allow THEN 1 ELSE 0
============================================================================
