------------------------------- MODULE Context ------------------------------
(***************************************************************************)
(* How a task loses the processor and gets it back on the AVR ports:       *)
(* context.S, stack.c, interrupts.c and the critical sections of arch.c    *)
(* and arch.h, for the ATmega128 and the ATmega2560 (whose directory is    *)
(* called mega2650).                                                       *)
(*                                                                         *)
(* A step ends where an interrupt may come next.  A word is what one push  *)
(* (or one run of pushes of registers that are all treated alike) leaves   *)
(* on a stack: what it is, whose it is, how often its task had computed,   *)
(* and, for SREG, the interrupt flag.  A return address is a word with the *)
(* label it leads to.  r2 stands for r2 to r23, r24 for r24 and r25, which *)
(* carry a task's argument, and r26 for r26 to r31.                        *)
(*                                                                         *)
(* Which task tasks_search picks is left open: that is Scheduler's matter. *)
(***************************************************************************)
EXTENDS Integers, Sequences, FiniteSets, SequencesExt

CONSTANTS
    Task,
    Idle,        \* runs main, on the stack main has at reset
    Kernel,      \* the owner of kReservedMemory
    Ports,       \* the ports to consider
    StackSize,   \* stackSize of every task but Idle, in bytes
    OwnUses,     \* bytes of its stack a task itself may use
    MaxNested,   \* bound on the interrupts taken on one stack and not left
    MaxOpen      \* bound on the sections a task is in at once

ASSUME ContextAssumption ==
    /\ Idle \in Task /\ Kernel \notin Task
    /\ Ports \subseteq {"mega128", "mega2560"}
    /\ StackSize \in Nat /\ OwnUses \subseteq Nat
    /\ MaxNested \in Nat \ {0} /\ MaxOpen \in 0..254

VARIABLES
    port,
    pc,                 \* the label of the next instruction
    sp,                 \* the stack SP points into; it points at its end
    reg,                \* r0 to r31, and EIND and RAMPZ on the ATmega2560
    sreg,               \* SREG, a word
    stack,              \* each task's stack and the kernel's, top last
    stackPtr,           \* stackPtr of each task: a stack and a height
    kStackPointer,      \* a height of the kernel's stack
    currentTask,
    kCriticalNesting,
    live,               \* the tasks that exist
    started,            \* the systick timer runs
    open,               \* the sections each task is in, outermost first
    own,                \* bytes of its stack each task itself uses
    computed,           \* history: which of two values each task computed last
    spoiled,            \* tasks that wrote below their stack's first byte
    panicked            \* history: tasks reported as "Task stack corruption"

cpu == <<pc, sp, reg, sreg>>
memory == <<stack, stackPtr, kStackPointer, spoiled>>
tasks == <<currentTask, live, own, panicked>>
sections == <<kCriticalNesting, open>>
vars == <<port, cpu, memory, tasks, sections, started, computed>>

Registers ==
    {"r0", "r1", "r2", "r24", "r26"}
      \cup (IF port = "mega2560" THEN {"EIND", "RAMPZ"} ELSE {})

Word(what, owner, v) == <<what, owner, v, 0>>
Label(label)         == Word(label, Kernel, 0)
Enabled(s)           == s[4] = 1
Masked(s)            == <<s[1], s[2], s[3], 0>>
Unmasked(s)          == <<s[1], s[2], s[3], 1>>

Drop(s, n) == SubSeq(s, 1, Len(s) - n)
Push(on, words) == [stack EXCEPT ![on] = @ \o words]

-----------------------------------------------------------------------------
\* Bytes.  A return address has 17 bits on the ATmega2560.
AddressSize == IF port = "mega2560" THEN 3 ELSE 2

\* How many of these words, or sections, are of these kinds.
Count(words, kinds) == Cardinality({i \in DOMAIN words : words[i][1] \in kinds})

Labels == {"own", "yield", "pushed", "read", "kernel", "unmasked", "restoring",
           "returning", "isr", "hook", "gone"}

Bytes(words) ==
    22 * Count(words, {"r2"}) + 6 * Count(words, {"r26"}) + 2 * Count(words, {"r24"})
      + Count(words, {"r0", "r1", "SREG", "EECR", "EIND", "RAMPZ"})
      + AddressSize * Count(words, Labels)

\* arch_prepareStackFrame puts the first byte this far below the end.
TopOffset == IF port = "mega2560" THEN 2 ELSE 1

\* SP, counted from stackBegin, with these words on the stack of t: it points at
\* the next byte to be written.
Address(t, words) == StackSize - TopOffset - own[t] - Bytes(words)

\* Pushing them wrote to the protection region or, further down, to the kTask_t.
Spoils(on, words) ==
    IF on \in Task \ {Idle} /\ Address(on, words) + 1 < 0 THEN {on} ELSE {}

-----------------------------------------------------------------------------
\* What a task finds in its registers while it runs, and in SREG.
Own(t, r) == Word(r, t, computed[t])

Zero == Word("zero", Kernel, 0)

\* main, before kernel_startScheduler: tasks_initScheduler has made the idle
\* task current, so that its context is what main goes on with.
Init ==
    /\ port \in Ports
    /\ pc = "own" /\ sp = Idle
    /\ computed = [t \in Task |-> 0]
    /\ reg = [r \in Registers |-> Own(Idle, r)]
    /\ sreg = Own(Idle, "SREG")
    /\ stack = [s \in Task \cup {Kernel} |-> <<>>]
    /\ stackPtr = [t \in Task |-> <<t, 0>>]
    /\ kStackPointer = 0
    /\ currentTask = Idle
    /\ kCriticalNesting = 0
    /\ live = {Idle}
    /\ started = FALSE
    /\ open = [t \in Task |-> <<>>]
    /\ own = [t \in Task |-> 0]
    /\ spoiled = {}
    /\ panicked = {}

\* arch_startScheduler.
StartScheduler ==
    /\ pc = "own" /\ currentTask = Idle
    /\ ~started /\ open[Idle] = <<>>
    /\ started' = TRUE
    /\ sreg' = Unmasked(sreg)
    /\ UNCHANGED <<port, pc, sp, reg, memory, tasks, sections, computed>>

\* arch_prepareStackFrame: the return address of the entry function, its own
\* address, and what _arch_restore_context_m pops.
PrepareStackFrame128(t) ==
    <<Label("hook"), Label("own"), Word("r0", t, 0), Unmasked(Word("SREG", t, 0)),
      Word("r1", t, 0), Word("r2", t, 0), Word("r24", t, 0), Word("r26", t, 0)>>

PrepareStackFrame2560(t) ==
    <<Label("hook"), Label("own"), Word("r0", t, 0), Unmasked(Word("SREG", t, 0)),
      Word("EIND", t, 0), Word("RAMPZ", t, 0),
      Word("r1", t, 0), Word("r2", t, 0), Word("r24", t, 0), Word("r26", t, 0)>>

PrepareStackFrame(t) ==
    IF port = "mega2560" THEN PrepareStackFrame2560(t) ELSE PrepareStackFrame128(t)

\* tasks_createTaskStatic, as far as the stack goes: arch_prepareProtectionRegion
\* fills the region below it anew.  It goes through critical sections, which leave
\* interrupts off (EnterCritical below).
Create(t, use) ==
    /\ pc = "own"
    /\ t \notin live
    /\ live' = live \cup {t}
    /\ stack' = [stack EXCEPT ![t] = PrepareStackFrame(t)]
    /\ stackPtr' = [stackPtr EXCEPT ![t] = <<t, Len(PrepareStackFrame(t))>>]
    /\ spoiled' = spoiled \ {t}
    /\ panicked' = panicked \ {t}
    /\ own' = [own EXCEPT ![t] = use]
    /\ computed' = [computed EXCEPT ![t] = 0]
    /\ open' = [open EXCEPT ![t] = <<>>]
    /\ sreg' = Masked(sreg)
    /\ UNCHANGED <<port, pc, sp, reg, kStackPointer, currentTask, kCriticalNesting,
                   started>>

\* tasks_deleteTask on another task, which goes through critical sections as well.
Delete(t) ==
    /\ pc = "own"
    /\ t \in live \ {Idle, currentTask}
    /\ live' = live \ {t}
    /\ sreg' = Masked(sreg)
    /\ UNCHANGED <<port, pc, sp, reg, memory, currentTask, own, panicked, sections,
                   started, computed>>

\* A task's own instructions change all its registers.
Compute ==
    /\ pc = "own" /\ open[currentTask] = <<>>
    /\ computed' = [computed EXCEPT ![currentTask] = 1 - @]
    /\ reg' = [r \in Registers |-> Word(r, currentTask, computed'[currentTask])]
    /\ sreg' = <<"SREG", currentTask, computed'[currentTask], sreg[4]>>
    /\ UNCHANGED <<port, pc, sp, memory, tasks, sections, started>>

-----------------------------------------------------------------------------
\* arch_enterCriticalSection and its exit, as the assembler takes them.  __SREG__ is
\* the I/O address 0x3f to avr-gcc, but lds and sts take data addresses, and there
\* 0x3f is a register of the EEPROM: EECR on the ATmega2560, EEARH on the ATmega128.
\* So on the ATmega2560 the sections are a cli and, on the stack, a copy of EECR that
\* the exit gives back to EECR.  On the ATmega128 the atomic section inside each of
\* the two functions ends in writing EEARH, whose upper bits read 0, to SREG before
\* its sei has taken effect.  Either way interrupts are off from the first section
\* on.  (The flags below I are free for a call to change.)
Eecr == Word("EECR", Kernel, 0)

CountUp == IF kCriticalNesting <= 254 THEN kCriticalNesting + 1 ELSE kCriticalNesting

EnterCritical ==
    /\ pc = "own" /\ Len(open[currentTask]) < MaxOpen
    /\ open' = [open EXCEPT ![currentTask] = Append(@, <<"critical", sreg>>)]
    /\ sreg' = Masked(sreg)
    /\ IF port = "mega2560"
       THEN stack' = Push(sp, <<Eecr>>) /\ UNCHANGED kCriticalNesting
       ELSE kCriticalNesting' = CountUp /\ UNCHANGED stack
    /\ UNCHANGED <<port, pc, sp, reg, stackPtr, kStackPointer, spoiled, tasks,
                   started, computed>>

InnermostIs(kind) ==
    open[currentTask] # <<>> /\ Last(open[currentTask])[1] = kind

\* A mutant: leaving the inner of two sections leaves both.
CountDownReset == 0

\* What kCriticalNesting becomes as a section is left.
CountDown == IF kCriticalNesting > 0 THEN kCriticalNesting - 1 ELSE 0

ExitCritical ==
    /\ pc = "own" /\ InnermostIs("critical")
    /\ open' = [open EXCEPT ![currentTask] = Front(@)]
    /\ IF port = "mega2560"
       THEN /\ stack' = [stack EXCEPT ![sp] = Front(@)]
            /\ UNCHANGED <<kCriticalNesting, sreg>>
       ELSE /\ kCriticalNesting' = CountDown
            /\ sreg' = Masked(sreg)
            /\ UNCHANGED stack
    /\ UNCHANGED <<port, pc, sp, reg, stackPtr, kStackPointer, spoiled, tasks,
                   started, computed>>

\* arch_enterCriticalSectionSafe and its exit, around every debug_printk: the
\* caller keeps SREG in a variable.
EnterCriticalSafe ==
    /\ pc = "own" /\ Len(open[currentTask]) < MaxOpen
    /\ open' = [open EXCEPT ![currentTask] = Append(@, <<"safe", sreg>>)]
    /\ sreg' = Masked(sreg)
    /\ UNCHANGED <<port, pc, sp, reg, memory, tasks, kCriticalNesting, started,
                   computed>>

\* A mutant: the sei alone, SREG is not written back.
ExitCriticalSafeSei ==
    /\ pc = "own" /\ InnermostIs("safe")
    /\ open' = [open EXCEPT ![currentTask] = Front(@)]
    /\ sreg' = Unmasked(sreg)
    /\ UNCHANGED <<port, pc, sp, reg, memory, tasks, kCriticalNesting, started,
                   computed>>

ExitCriticalSafe ==
    /\ pc = "own" /\ InnermostIs("safe")
    /\ open' = [open EXCEPT ![currentTask] = Front(@)]
    /\ sreg' = Last(open[currentTask])[2]
    /\ UNCHANGED <<port, pc, sp, reg, memory, tasks, kCriticalNesting, started,
                   computed>>

-----------------------------------------------------------------------------
\* _arch_save_context_m after its cli: what is pushed once r0 and SREG are, and
\* the switch to the kernel's stack, on which tasks_tick or tasks_switchTask is
\* called.  base is the stack up to there, saved the value of SREG.
SaveOrder128 == <<"r1", "r2", "r24", "r26">>

SaveOrder2560 == <<"EIND", "RAMPZ", "r1", "r2", "r24", "r26">>

\* A mutant: the ATmega128's, on both.
SaveOrderShort == SaveOrder128

SaveOrder == IF port = "mega2560" THEN SaveOrder2560 ELSE SaveOrder128

SaveRest(base) ==
    LET s == base \o [i \in DOMAIN SaveOrder |-> reg[SaveOrder[i]]]
    IN  /\ stack' = [stack EXCEPT
                       ![sp] = s,
                       ![Kernel] = Append(SubSeq(@, 1, kStackPointer), Label("kernel"))]
        /\ stackPtr' = [stackPtr EXCEPT ![currentTask] = <<sp, Len(s)>>]
        /\ spoiled' = spoiled \cup Spoils(sp, s)
        /\ sp' = Kernel
        /\ pc' = "kernel"
        /\ reg' = [r \in Registers |-> IF r = "r1" THEN Zero ELSE Word(r, Kernel, 0)]
        /\ sreg' = <<"SREG", Kernel, sreg[3], 0>>
        /\ UNCHANGED <<port, kStackPointer, tasks, sections, started, computed>>

\* arch_yield as far as interrupts can enter it: its call, and three instructions.
CallYield ==
    /\ pc = "own" /\ started /\ open[currentTask] = <<>>
    /\ stack' = Push(sp, <<Label("own")>>)
    /\ spoiled' = spoiled \cup Spoils(sp, stack'[sp])
    /\ pc' = "yield"
    /\ UNCHANGED <<port, sp, reg, sreg, stackPtr, kStackPointer, tasks, sections,
                   started, computed>>

PushR0 ==
    /\ pc = "yield"
    /\ stack' = Push(sp, <<reg["r0"]>>)
    /\ spoiled' = spoiled \cup Spoils(sp, stack'[sp])
    /\ pc' = "pushed"
    /\ UNCHANGED <<port, sp, reg, sreg, stackPtr, kStackPointer, tasks, sections,
                   started, computed>>

ReadSreg ==
    /\ pc = "pushed"
    /\ reg' = [reg EXCEPT !["r0"] = sreg]
    /\ pc' = "read"
    /\ UNCHANGED <<port, sp, sreg, memory, tasks, sections, started, computed>>

SaveOnYield ==
    /\ pc = "read"
    /\ SaveRest(Append(stack[sp], reg["r0"]))

Nested(words) == Count(words, {"isr"})

\* TIMERn_COMP: the hardware pushes the program counter and masks interrupts, the
\* handler calls arch_tick.
Interrupt ==
    /\ started /\ Enabled(sreg)
    /\ Nested(stack[sp]) < MaxNested
    /\ SaveRest(stack[sp] \o <<Label(pc), Label("isr"), reg["r0"], Masked(sreg)>>)

-----------------------------------------------------------------------------
\* _arch_restore_context_m.  The call on the kernel's stack has returned, r0 to r31
\* come from where the new task's stackPtr points.  On the ATmega2560 interrupts are
\* let in ("Simulator bug workaround") before SREG is back.
RestoreOrder128 == <<"r26", "r24", "r2", "r1">>

\* A mutant: RAMPZ and EIND the other way round.
RestoreOrderSwapped == <<"r26", "r24", "r2", "r1", "EIND", "RAMPZ">>

RestoreOrder2560 == <<"r26", "r24", "r2", "r1", "RAMPZ", "EIND">>

RestoreOrder == IF port = "mega2560" THEN RestoreOrder2560 ELSE RestoreOrder128

Restore(from, words) ==
    LET popped == Reverse(words)
        flags  == popped[Len(RestoreOrder) + 1]
    IN  /\ stack' = [stack EXCEPT ![Kernel] = Front(@),
                                  ![from] = Drop(words, Len(RestoreOrder) + 1)]
        /\ kStackPointer' = Len(stack'[Kernel])
        /\ sp' = from
        /\ reg' = [r \in Registers |->
                     IF r = "r0" THEN flags
                     ELSE popped[CHOOSE i \in DOMAIN RestoreOrder : RestoreOrder[i] = r]]
        /\ IF port = "mega2560"
           THEN pc' = "unmasked" /\ sreg' = Unmasked(sreg)
           ELSE pc' = "restoring" /\ sreg' = flags

\* A mutant: a stack used to its last byte is an error as well.
OutOfBoundsAtBegin(t) ==
    Address(t, SubSeq(stack[t], 1, stackPtr[t][2])) \notin 1..StackSize

\* tasks_checkStackBounds.
OutOfBounds(t) ==
    Address(t, SubSeq(stack[t], 1, stackPtr[t][2])) \notin 0..StackSize

\* arch_checkProtectionRegion.
RegionBroken(t) == t \in spoiled

\* tasks_switchContext looks at the task that leaves.
Reported(t) == t # Idle /\ (RegionBroken(t) \/ OutOfBounds(t))

\* The current task stays current until its quantum ends even if it was deleted.
MaySwitchTo ==
    IF kCriticalNesting = 0 THEN live \cup {currentTask} ELSE {currentTask}

\* tasks_switchTask, and what its caller does once it has returned.
Dispatch(n) ==
    /\ pc = "kernel"
    /\ n \in MaySwitchTo
    /\ currentTask' = n
    /\ panicked' = panicked \cup
           (IF n # currentTask /\ Reported(currentTask) THEN {currentTask} ELSE {})
    /\ Restore(stackPtr[n][1], SubSeq(stack[stackPtr[n][1]], 1, stackPtr[n][2]))
    /\ UNCHANGED <<port, stackPtr, spoiled, live, own, sections, started, computed>>

WriteSreg ==
    /\ pc = "unmasked"
    /\ sreg' = reg["r0"]
    /\ pc' = "restoring"
    /\ UNCHANGED <<port, sp, reg, memory, tasks, sections, started, computed>>

PopR0 ==
    /\ pc = "restoring"
    /\ reg' = [reg EXCEPT !["r0"] = Last(stack[sp])]
    /\ stack' = [stack EXCEPT ![sp] = Front(@)]
    /\ pc' = "returning"
    /\ UNCHANGED <<port, sp, sreg, stackPtr, kStackPointer, spoiled, tasks, sections,
                   started, computed>>

\* ret and reti: to the label on top of the stack.
ReturnTo ==
    /\ pc' = Last(stack[sp])[1]
    /\ stack' = [stack EXCEPT ![sp] = Front(@)]
    /\ UNCHANGED <<port, sp, reg, stackPtr, kStackPointer, spoiled, currentTask, own,
                   panicked, sections, started, computed>>

Ret == pc = "returning" /\ ReturnTo /\ UNCHANGED <<sreg, live>>

Reti == pc = "isr" /\ ReturnTo /\ sreg' = Unmasked(sreg) /\ UNCHANGED live

\* The ret of a task's entry function.
ReturnFromEntry ==
    /\ pc = "own" /\ currentTask # Idle /\ open[currentTask] = <<>>
    /\ ReturnTo
    /\ UNCHANGED <<sreg, live>>

\* arch_taskReturnHook; tasks_deleteTask does nothing to a task that holds mutexes.
\* tasks_getCurrentTask is a critical section, and only the ATmega128 ends in a sei.
ReturnHook ==
    /\ pc = "hook"
    /\ \E holdsMutex \in BOOLEAN :
          live' = IF holdsMutex THEN live ELSE live \ {currentTask}
    /\ sreg' = IF port = "mega128" THEN Unmasked(sreg) ELSE Masked(sreg)
    /\ pc' = "gone"
    /\ UNCHANGED <<port, sp, reg, memory, currentTask, own, panicked, sections, started,
                   computed>>

Next ==
    \/ StartScheduler \/ Compute
    \/ \E t \in Task : (\E use \in OwnUses : Create(t, use)) \/ Delete(t)
    \/ EnterCritical \/ ExitCritical \/ EnterCriticalSafe \/ ExitCriticalSafe
    \/ CallYield \/ PushR0 \/ ReadSreg \/ SaveOnYield \/ Interrupt
    \/ \E n \in Task : Dispatch(n)
    \/ WriteSreg \/ PopR0 \/ Ret \/ Reti
    \/ ReturnFromEntry \/ ReturnHook

Spec == Init /\ [][Next]_vars

-----------------------------------------------------------------------------
Words == (Registers \cup {"SREG", "EECR", "zero"} \cup Labels)
           \X (Task \cup {Kernel}) \X {0, 1} \X {0, 1}

\* Type invariant: an instruction is at a known label, what is in a register or on
\* a stack is a word, SREG holds a saved SREG, and every stackPtr lies within a stack.
ContextTypeOK ==
    /\ port \in Ports
    /\ pc \in Labels
    /\ sp \in Task \cup {Kernel}
    /\ reg \in [Registers -> Words]
    /\ sreg \in Words /\ sreg[1] = "SREG"
    /\ stack \in [Task \cup {Kernel} -> Seq(Words)]
    /\ stackPtr \in [Task -> (Task \cup {Kernel}) \X Nat]
    /\ kStackPointer \in Nat
    /\ currentTask \in Task
    /\ kCriticalNesting \in 0..255
    /\ live \subseteq Task /\ Idle \in live
    /\ started \in BOOLEAN
    /\ open \in [Task -> Seq({"critical", "safe"} \X Words)]
    /\ own \in [Task -> OwnUses \cup {0}]
    /\ computed \in [Task -> {0, 1}]
    /\ spoiled \subseteq Task \ {Idle} /\ panicked \subseteq Task \ {Idle}

\* How many of these sections are critical sections.
Depth(entered) == Count(entered, {"critical"})

\* What lies under everything on a task's stack: its return address.
Base(t) == IF t = Idle THEN <<>> ELSE <<Label("hook")>>

\* Whenever a task's own code runs it finds what it left: every register and SREG as
\* it last computed them, its own stack, and on it nothing but its return address
\* and the copy of EECR that each open critical section of the ATmega2560 keeps there
\* (_arch_save_context_m, _arch_restore_context_m, arch_prepareStackFrame).
ContextKept ==
    pc = "own" =>
        /\ sp = currentTask
        /\ \A r \in Registers : reg[r] = Own(currentTask, r)
        /\ Masked(sreg) = Own(currentTask, "SREG")
        /\ stack[currentTask] =
              Base(currentTask) \o
                  [i \in 1..(IF port = "mega2560" THEN Depth(open[currentTask]) ELSE 0)
                     |-> Eecr]

\* Sections nest, of either kind in the other: interrupts are off in a task's code as
\* long as it is in a section, because only the outermost may have found them on, so
\* that no inner exit lets them in; and kCriticalNesting counts the critical sections
\* of the running task and of no other, however often it has left some in between.
SectionsBalance ==
    /\ pc = "own" /\ Enabled(sreg) => started /\ open[currentTask] = <<>>
    /\ \A t \in Task : \A i \in DOMAIN open[t] : Enabled(open[t][i][2]) => i = 1
    /\ kCriticalNesting = (IF port = "mega2560" THEN 0 ELSE Depth(open[currentTask]))

\* What config.h says of CFG_TICKS_PER_TASK, that it controls how long a task runs
\* "before getting pre-empted": once the scheduler is started, the systick can get at
\* a task that is in no section.  It cannot, from the task's first section on.
PreemptedOutsideSections ==
    pc = "own" /\ started /\ open[currentTask] = <<>> => Enabled(sreg)

\* A task in a section, of any kind and at any depth, keeps the processor.
CriticalKeepsProcessor ==
    [][currentTask' # currentTask => open[currentTask] = <<>>]_vars

\* What the kernel needs of a task's stack beyond what the task itself uses: its two
\* return addresses, a yield cut short by an interrupt, all registers, and on the
\* ATmega2560 seven bytes for each further interrupt let in while one is left.
Reserve == IF port = "mega2560" THEN 48 + 7 * (MaxNested - 1) ELSE 42

\* A task whose stack has room for that is never reported as corrupt, and writes
\* nothing below its stack, at whatever instruction interrupts come.
StackSuffices ==
    \A t \in Task \ {Idle} :
        own[t] + Reserve + TopOffset <= StackSize => t \notin spoiled \cup panicked
=============================================================================
