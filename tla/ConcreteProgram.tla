--------------------------- MODULE ConcreteProgram ---------------------------
(***************************************************************************)
(* How an analysed program really runs, reduced to its control: registers  *)
(* hold "true", "false" or a function, a value the program knows nothing   *)
(* about is chosen by the environment, and calls nest.  Instructions mean  *)
(* what LLVM and the C library say.  VerificationLoop is shown to follow   *)
(* every run of this.                                                      *)
(***************************************************************************)
EXTENDS Integers, Sequences

VARIABLES
    program,  \* what is run; see VerificationLoop
    env,      \* the values that are chosen before the start: of the argument
              \* of main, and of pointers to constants
    pc,       \* the node to execute next
    regs,     \* register -> truth value, in the running function
    frames,   \* the suspended callers, the innermost last
    result    \* "running", or "stopped" by a call of abort or exit

run == <<program, env, pc, regs, frames, result>>

Instr == program.code[pc]
CallOf(callee) == Instr.opcode = "call" /\ Instr.callee = callee
Value(reg) ==
    IF reg \in DOMAIN env THEN env[reg]
    ELSE IF reg \in {"true", "false"} \cup DOMAIN program.functions THEN reg
    ELSE IF reg = "null" THEN "false"
    ELSE IF reg \in DOMAIN regs THEN regs[reg] ELSE "undefined"

Assigned(f, reg, b) == [r \in DOMAIN f \cup {reg} |-> IF r = reg THEN b ELSE f[r]]

Truths == {"true", "false"}

\* A function is called by its name, or through a register.
Callee == Value(Instr.callee)

\* The program uses the result of a function that returned none, or a register
\* that nothing was assigned to: it has no defined behaviour from here on.
UsesUndefined ==
    /\ \/ Instr.opcode \in {"zext", "bitcast"}
       \/ Instr.opcode \in {"br", "ret"} /\ Instr.arg # "none"
       \/ Instr.opcode = "call" /\ Callee \in DOMAIN program.functions
            /\ program.functions[Callee].param # "none"
    /\ Value(Instr.arg) = "undefined"

Init ==
    /\ env \in [DOMAIN env -> Truths]
    /\ pc = program.entry
    /\ regs = <<>> /\ frames = <<>>
    /\ result = "running"

Goto(node) == pc' = node /\ UNCHANGED <<program, env, result>>

Jump ==
    /\ \/ Instr.opcode = "br" /\ Instr.arg = "none"
       \/ CallOf("llvm.dbg")
       \/ CallOf("__ANGIE_fin")
    /\ Goto(Instr.next) /\ UNCHANGED <<regs, frames>>

Unknown ==
    /\ CallOf("__ANGIE_CREATE_UNKNOWN_")
    /\ \E b \in Truths : regs' = Assigned(regs, Instr.target, b)
    /\ Goto(Instr.next) /\ UNCHANGED frames

Copy ==
    /\ Instr.opcode \in {"zext", "bitcast"} /\ ~UsesUndefined
    /\ regs' = Assigned(regs, Instr.target, Value(Instr.arg))
    /\ Goto(Instr.next) /\ UNCHANGED frames

\* The address of a function is not null.
Branch ==
    /\ Instr.opcode = "br" /\ Instr.arg # "none" /\ ~UsesUndefined
    /\ Goto(IF Value(Instr.arg) = "false" THEN Instr.nextFalse ELSE Instr.next)
    /\ UNCHANGED <<regs, frames>>

Call ==
    /\ Instr.opcode = "call" /\ ~UsesUndefined
    /\ Callee \in DOMAIN program.functions
    /\ LET f == program.functions[Callee]
       IN  /\ regs' = [r \in {f.param} \ {"none"} |-> Value(Instr.arg)]
           /\ Goto(f.cfg)
    /\ frames' = Append(frames, [regs |-> regs, target |-> Instr.target, retNode |-> Instr.next])

Ret ==
    /\ Instr.opcode = "ret" /\ frames # <<>> /\ ~UsesUndefined
    /\ LET caller == frames[Len(frames)]
       IN  /\ regs' = IF Instr.arg = "none" THEN caller.regs
                      ELSE Assigned(caller.regs, caller.target, Value(Instr.arg))
           /\ Goto(caller.retNode)
    /\ frames' = SubSeq(frames, 1, Len(frames) - 1)

Stop ==
    /\ CallOf("abort") \/ CallOf("exit") \/ UsesUndefined
    /\ result' = "stopped"
    /\ UNCHANGED <<program, env, pc, regs, frames>>

Next ==
    /\ result = "running"
    /\ pc \in DOMAIN program.code
    /\ Jump \/ Unknown \/ Copy \/ Branch \/ Call \/ Ret \/ Stop

Spec == Init /\ [][Next]_run

\* The run does not stop while it can go on.
GoesOn == WF_run(Next)
=============================================================================
