------------------------------- MODULE Upkeep -------------------------------
(***************************************************************************)
(* The rules the code generators follow so that the register state stays   *)
(* consistent, as a check of scripts that does not run them.               *)
(*                                                                         *)
(* A register is only taken when it is free, a value is only found in      *)
(* registers of its class, and what defines a value gives it up: the       *)
(* assertions of RegAlloc.{h,cpp} and Assembler.cpp.  What is known at one *)
(* step of a script, on one of the ways that lead there, is a record F:    *)
(*   mach, kind, last  the processor, the program, and the values that may *)
(*         be found, 1..last                                               *)
(*   of    pairs of a variable and a value that is in its register         *)
(*   held  other values that are in a register                             *)
(*   open  variables whose register is free                                *)
(*   in    for each variable given anything, the registers it may hold     *)
(*   dead  values that have neither register nor slot                      *)
(*   exit  the step is within asm_leave_trace                              *)
(*   to    steps up to this one are jumped over                            *)
(*   ok    no rule has been broken                                         *)
(***************************************************************************)
EXTENDS Script

\* The registers of the class of value i.
Class(F, i) ==
  IF F.kind[i] \in FpKinds THEN F.mach.managed \cap F.mach.fpr
                           ELSE F.mach.managed \ F.mach.fpr

Values(F) == 1..F.last
Held(F) == F.held \cup {p[2] : p \in F.of}

\* A name that was never given anything is that of a machine register.
Among(F, x) == IF x \in DOMAIN F.in THEN F.in[x] ELSE {x}
IsRegister(F, x) == x \in F.mach.managed \cup F.open \cup {p[1] : p \in F.of}
Apart(F, x, y) == Among(F, x) \cap Among(F, y) = {}
Outside(F, x, regs, but) == x \in but \/ Among(F, x) \cap regs = {}

\* Value i cannot be in the way of the temporary that restoring what is in regs may
\* need.
Safe(F, regs, i) ==
  F.kind[i] \in FpKinds \/ F.mach.tempKinds = {} \/ regs \cap F.mach.fpr = {}

\* Variable r is given something: what is of no interest, the register of value i, one
\* of regs, or what x holds.
Given(F, r, regs) ==
  [F EXCEPT !.of = {p \in @ : p[1] # r}, !.open = @ \ {r},
            !.in = [x \in DOMAIN @ \cup {r} |-> IF x = r THEN regs ELSE @[x]]]

Anything(F, r) == Given(F, r, F.mach.managed)

Named(F, r, i, regs) ==
  [Given(F, r, regs) EXCEPT
     !.of = @ \cup {<<x, i>> : x \in {r} \cup {x \in regs : regs = {x}}}]

Alias(F, r, x) ==
  IF r = x THEN F
  ELSE [Given(F, r, Among(F, x)) EXCEPT
          !.of = @ \cup {<<r, p[2]>> : p \in {q \in F.of : q[1] = x}},
          !.open = IF x \in F.open THEN @ \cup {r} ELSE @]

\* Whatever is in regs may be evicted, but not what is in the registers of `but'.
Evicted(F, regs, but) ==
  [F EXCEPT !.held = {},
            !.of = {p \in @ : /\ \/ Outside(F, p[1], regs, but)
                                 \/ \E x \in but : <<x, p[2]>> \in F.of
                              /\ Safe(F, regs, p[2])}]

Found(F, i, regs, but) ==
  [Evicted(F, regs, but) EXCEPT
     !.of = {p \in @ : p[2] # i}, !.dead = @ \ {i},
     !.open = {x \in @ : Outside(F, x, regs, but)}]

Found2(F, ra, a, alla, rb, b, allb, but) ==
  Anything(Anything(Found(Found(F, a, alla, but), b, allb, but), ra), rb)

Freed(F, i) ==
  [F EXCEPT !.of = {p \in @ : p[2] # i}, !.held = @ \ {i}, !.dead = @ \cup {i},
            !.open = @ \cup {p[1] : p \in {q \in F.of : q[2] = i}}]

Taken(F, i, x) ==
  [F EXCEPT !.of = @ \cup {<<x, i>>}, !.dead = @ \ {i},
            !.open = {y \in @ : Apart(F, x, y)}]

NothingKnown(F) == [F EXCEPT !.of = {}, !.held = {}, !.open = {}, !.dead = {}]
Vacant(F) == [NothingKnown(F) EXCEPT !.open = F.mach.managed]

\* The rules.
SavedFound(F) == {i \in DOMAIN F.kind : F.kind[i] = "saved"} \subseteq Values(F)

Follows(F, s) ==
  \/ s[1] \in {"op", "trash", "protect", "unprotect", "jump", "fork", "scratch",
               "unreached", "release"}
  \/ s[1] = "unless" /\ (s[2][1] = "inreg" => s[2][2] \in Values(F))
  \/ /\ s[1] \in {"result", "find", "prep", "base"}
     /\ s[2] \notin F.mach.managed
     /\ s[3] \in Values(F)
     /\ s[4] \subseteq Class(F, s[3])
  \/ /\ s[1] = "specific"
     /\ "w" \notin F.mach.managed
     /\ s[2] \in Values(F)
     /\ IsRegister(F, s[3])
     /\ Among(F, s[3]) \subseteq Class(F, s[2])
  \/ /\ s[1] \in {"find2", "base2"}
     /\ {s[2], s[5]} \cap F.mach.managed = {}
     /\ {s[3], s[6]} \subseteq Values(F)
     /\ s[4] \subseteq Class(F, s[3])
     /\ s[7] \subseteq Class(F, s[6])
  \/ s[1] \in {"mem", "inregor"} /\ s[2] \notin F.mach.managed /\ s[3] \in Values(F)
  \/ /\ s[1] = "take"
     /\ s[2] \in Values(F)
     /\ \/ s[2] \in Held(F)
        \/ s[3] \in F.open /\ Among(F, s[3]) \subseteq Class(F, s[2])
  \/ s[1] = "free" /\ s[2] \in Values(F)
  \/ s[1] = "temp" /\ s[2] \notin F.mach.managed /\ s[3] \subseteq F.mach.managed
  \/ s[1] = "evict" /\ IsRegister(F, s[2])
  \/ s[1] = "assign" /\ F.mach.managed \subseteq F.open /\ SavedFound(F)
  \/ s[1] = "enter"
  \/ s[1] = "leave" /\ F.exit
  \/ s[1] = "let" /\ s[2] \notin F.mach.managed

\* What is known after step s, the n-th of its script, on each way that leads on.
After(F, s, n) ==
  CASE s[1] \in {"op", "trash", "protect", "unprotect", "unreached"} -> {F}
    [] s[1] = "jump" -> {[F EXCEPT !.to = n + s[2]]}
    [] s[1] = "fork" -> {[F EXCEPT !.to = n + m] : m \in s[2]}
    [] s[1] = "unless" ->
         LET over == [F EXCEPT !.to = n + s[3]]
         IN CASE s[2][1] # "inreg" -> {F, over}
              [] s[2][1] = "inreg" /\ s[2][2] \in Held(F) -> {F}
              [] OTHER -> {[F EXCEPT !.held = @ \cup {s[2][2]}], over}
    [] s[1] \in {"result", "find"} ->
         {Named(Found(F, s[3], s[4], s[5]), s[2], s[3], s[4])}
    [] s[1] = "prep" ->
         {Freed(Named(Found(F, s[3], s[4], s[5]), s[2], s[3], s[4]), s[3])}
    [] s[1] = "base" -> {Anything(Found(F, s[3], s[4], s[5]), s[2])}
    [] s[1] = "free" -> {Freed(F, s[2])}
    [] s[1] = "specific" ->
         LET regs == Among(F, s[3])
         IN {Named(Found(F, s[2], regs, {}), "w", s[2], regs)}
    [] s[1] = "find2" -> {Found2(F, s[2], s[3], s[4], s[5], s[6], s[7], s[8])}
    [] s[1] = "base2" -> {Found2(F, s[2], s[3], s[4], s[5], s[6], s[7], {})}
    [] s[1] = "mem" -> {Anything([F EXCEPT !.dead = @ \ {s[3]}], s[2])}
    [] s[1] = "inregor" ->
         {Named(F, s[2], s[3], Class(F, s[3]))} \cup
           IF s[3] \in Held(F) THEN {} ELSE {Alias(F, s[2], s[4])}
    [] s[1] = "take" ->
         {F} \cup IF s[2] \in Held(F) THEN {} ELSE {Taken(F, s[2], s[3])}
    [] s[1] = "temp" -> {Anything(Evicted(F, s[3], s[4]), s[2])}
    [] s[1] = "evict" ->
         {[Evicted(F, Among(F, s[2]), {}) EXCEPT !.open = @ \cup {s[2]}]}
    [] s[1] = "scratch" ->
         {[Evicted(F, F.mach.managed, s[2]) EXCEPT
             !.open = @ \cup {x \in F.mach.managed \ F.mach.saved :
                                \A y \in s[2] : Apart(F, x, y)}]}
    [] s[1] = "release" -> {Vacant(F)}
    [] s[1] = "assign" -> {NothingKnown(F)}
    [] s[1] = "enter" -> {[Vacant(F) EXCEPT !.exit = TRUE]}
    [] s[1] = "leave" -> {[NothingKnown(F) EXCEPT !.exit = FALSE]}
    [] s[1] = "let" -> {Alias(F, s[2], s[3])}

\* What is known of a program k, of which values 1..last may be found, at first.
Start(m, k, last) ==
  [mach |-> m, kind |-> k, last |-> last, of |-> {}, held |-> {}, open |-> {},
   in |-> [x \in {} |-> {}], dead |-> {}, exit |-> FALSE, to |-> 0, ok |-> TRUE]

Onward(F, s, n) ==
  IF n <= F.to \/ ~F.ok THEN {F}
  ELSE IF Follows(F, s) THEN After(F, s, n)
  ELSE {[F EXCEPT !.ok = FALSE]}

\* What is known at the end of a script, on each way through it.
Ends(m, k, last, code) ==
  LET known[n \in 0..Len(code)] ==
        IF n = 0 THEN {Start(m, k, last)}
        ELSE UNION {Onward(F, code[n], n) : F \in known[n - 1]}
  IN known[Len(code)]

=============================================================================
