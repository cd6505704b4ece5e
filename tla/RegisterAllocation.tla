------------------------ MODULE RegisterAllocation ------------------------
(***************************************************************************)
(* RegisterAnalysis::run for one function: the linear scan that finds the  *)
(* live range of every register, the allocator that gives each virtual     *)
(* range a physical register, and the spills placed around calls           *)
(* (lir/source/machine/RegisterAnalysis.cpp, RegisterAllocator.cpp).       *)
(*                                                                         *)
(* An instruction is a record with an opcode op and the sequence regs of   *)
(* its register operands, memory bases included, in their order:           *)
(* [reg, kill], where kill stands for is_kill() or is_dead().  Immediates, *)
(* stack slots and labels are no operands here, process_inst() skips them. *)
(* Positions count from 1.                                                 *)
(*                                                                         *)
(* There is one register class.  m_active is left out: run() writes it and *)
(* nothing reads it.                                                       *)
(***************************************************************************)
EXTENDS Naturals, Sequences, SequencesExt

CONSTANTS
  Physical,    \* The registers of the machine.
  Virtual,     \* The registers of MachFunction::RegisterTable.
  NoRegister,
  Pool,        \* m_pool, a sequence: the order in which registers are tried.
  CallerSaved  \* Machine::is_caller_saved().

ASSUME RegistersAssumption ==
  /\ NoRegister \notin Physical \union Virtual
  /\ Physical \intersect Virtual = {}
  /\ Pool \in Seq(Physical)
  /\ CallerSaved \subseteq Physical

VARIABLES
  stage,   \* "scan", "assign", "spill", "done", or "failed": an assert
  code,    \* the instructions of the function, its blocks in list order
  pos,     \* m_position, and
  oper,    \* the operand process_inst() is at
  ranges,  \* the LiveRanges, in the order they were found
  next,    \* the range the allocator is at
  table    \* RegisterTable: the register each virtual register gets

scanVars  == <<pos, oper>>
allocVars == <<stage, code, pos, oper, ranges, next, table>>

Register  == Physical \union Virtual

LiveRange == [reg : Register, alloc : Physical \union {NoRegister},
              start : Nat, end : Nat, killed : BOOLEAN]

-----------------------------------------------------------------------------
(* LiveRange::overlaps.  Both are strict: ranges may touch.                *)
Covers(r, p) == r.start < p /\ p < r.end

(* Mutant: a range is taken to end where it starts.                        *)
OverlapsStart(r, start, end) == r.start < start /\ r.end > start

OverlapsBounds(r, start, end) == r.start < end /\ r.end > start

InitAlloc ==
  /\ pos = 1
  /\ oper = 1
  /\ ranges = <<>>
  /\ next = 1
  /\ table = [v \in Virtual |-> NoRegister]

-----------------------------------------------------------------------------
(* Mutant: kills are not looked at.                                        *)
OpenKilled(i, reg) == ranges[i].reg = reg

(* LinearScan.  A range that was killed is never updated again.            *)
Open(i, reg) == ~ranges[i].killed /\ ranges[i].reg = reg

(* Mutant of NewRange: every range is taken for a physical register's.     *)
NewRangePhysical(op) ==
  [reg |-> op.reg, alloc |-> op.reg, start |-> pos, end |-> pos, killed |-> op.kill]

(* Mutant of NewRange: killed starts out as TRUE.                          *)
NewRangeClosed(op) ==
  [reg |-> op.reg, alloc |-> IF op.reg \in Physical THEN op.reg ELSE NoRegister,
   start |-> pos, end |-> pos, killed |-> TRUE]

NewRange(op) ==
  [reg |-> op.reg, alloc |-> IF op.reg \in Physical THEN op.reg ELSE NoRegister,
   start |-> pos, end |-> pos, killed |-> op.kill]

(* One turn of process_inst()'s loop: update_range() extends the first     *)
(* open range of the register, or begins one, and a kill closes it.        *)
ScanOperand ==
  /\ stage = "scan"
  /\ pos \in DOMAIN code
  /\ oper \in DOMAIN code[pos].regs
  /\ LET op == code[pos].regs[oper] IN
     \/ \E i \in DOMAIN ranges :
          /\ Open(i, op.reg)
          /\ \A j \in 1..(i - 1) : ~Open(j, op.reg)
          /\ ranges' = [ranges EXCEPT ![i].end = pos, ![i].killed = op.kill]
     \/ /\ \A i \in DOMAIN ranges : ~Open(i, op.reg)
        /\ ranges' = Append(ranges, NewRange(op))
  /\ oper' = oper + 1
  /\ UNCHANGED <<stage, code, pos, next, table>>

ScanInst ==
  /\ stage = "scan"
  /\ pos \in DOMAIN code
  /\ oper \notin DOMAIN code[pos].regs
  /\ pos' = pos + 1
  /\ oper' = 1
  /\ UNCHANGED <<stage, code, ranges, next, table>>

ScanEnds ==
  /\ stage = "scan"
  /\ pos \notin DOMAIN code
  /\ stage' = "assign"
  /\ UNCHANGED <<code, pos, oper, ranges, next, table>>

-----------------------------------------------------------------------------
(* RegisterAllocator.  A register is available to a range if no range of   *)
(* the function that has it, however far away, overlaps.                   *)
IsAvailable(reg, r) ==
  \A i \in DOMAIN ranges :
    ~(ranges[i].alloc = reg /\ OverlapsBounds(ranges[i], r.start, r.end))

KeepRegister ==
  /\ stage = "assign"
  /\ next \in DOMAIN ranges
  /\ ranges[next].alloc # NoRegister
  /\ next' = next + 1
  /\ UNCHANGED <<stage, code, pos, oper, ranges, table>>

(* assign_register: the first register of the pool that is available.      *)
AssignRegister ==
  /\ stage = "assign"
  /\ next \in DOMAIN ranges
  /\ ranges[next].alloc = NoRegister
  /\ \E k \in DOMAIN Pool :
       /\ IsAvailable(Pool[k], ranges[next])
       /\ \A j \in 1..(k - 1) : ~IsAvailable(Pool[j], ranges[next])
       /\ ranges' = [ranges EXCEPT ![next].alloc = Pool[k]]
  /\ next' = next + 1
  /\ UNCHANGED <<stage, code, pos, oper, table>>

(* assert(range.alloc != Register::NoRegister)                             *)
AssignFails ==
  /\ stage = "assign"
  /\ next \in DOMAIN ranges
  /\ ranges[next].alloc = NoRegister
  /\ \A k \in DOMAIN Pool : ~IsAvailable(Pool[k], ranges[next])
  /\ stage' = "failed"
  /\ UNCHANGED <<code, pos, oper, ranges, next, table>>

(* The allocations of the virtual ranges go to the register table.  A      *)
(* later range of the same register would overwrite an earlier one.        *)
LastOf(v) ==
  CHOOSE i \in DOMAIN ranges :
    /\ ranges[i].reg = v
    /\ \A j \in (i + 1)..Len(ranges) : ranges[j].reg # v

AssignEnds ==
  /\ stage = "assign"
  /\ next \notin DOMAIN ranges
  /\ table' = [v \in Virtual |->
                 IF \E i \in DOMAIN ranges : ranges[i].reg = v
                 THEN ranges[LastOf(v)].alloc ELSE NoRegister]
  /\ stage' = "spill"
  /\ UNCHANGED <<code, pos, oper, ranges, next>>

-----------------------------------------------------------------------------
(* Mutant: nothing is spilled.                                             *)
SpilledNever(p) == <<>>

(* CallsiteAnalysis.  The registers to spill at position p, one for each   *)
(* range that covers it, in the order of the ranges.                       *)
Spilled(p) ==
  FlattenSeq([i \in DOMAIN ranges |->
                IF Covers(ranges[i], p) /\ ranges[i].alloc \in CallerSaved
                THEN <<ranges[i].alloc>> ELSE <<>>])

Push(call, reg) ==
  [call EXCEPT !.op = "push", !.regs = <<[reg |-> reg, kill |-> FALSE]>>]

Pop(call, reg) ==
  [call EXCEPT !.op = "pop", !.regs = <<[reg |-> reg, kill |-> FALSE]>>]

(* Mutant of Surround: nothing is popped.                                  *)
SurroundUnpopped(p) ==
  LET spill == Spilled(p)
      pushes == [i \in DOMAIN spill |-> Push(code[p], spill[i])]
  IN  IF code[p].op = "call" THEN pushes \o <<code[p]>> ELSE <<code[p]>>

(* process_label: a call is put between the pushes of what it spills and   *)
(* the pops, which come in the same order as the pushes.                   *)
Surround(p) ==
  LET spill == Spilled(p)
      pushes == [i \in DOMAIN spill |-> Push(code[p], spill[i])]
      pops   == [i \in DOMAIN spill |-> Pop(code[p], spill[i])]
  IN  IF code[p].op = "call" THEN pushes \o <<code[p]>> \o pops ELSE <<code[p]>>

PlaceSpills ==
  /\ stage = "spill"
  /\ code' = FlattenSeq([p \in DOMAIN code |-> Surround(p)])
  /\ stage' = "done"
  /\ UNCHANGED <<pos, oper, ranges, next, table>>

AllocNext ==
  \/ ScanOperand \/ ScanInst \/ ScanEnds
  \/ KeepRegister \/ AssignRegister \/ AssignFails \/ AssignEnds
  \/ PlaceSpills

-----------------------------------------------------------------------------
AllocTypeOK ==
  /\ stage \in {"select", "scan", "assign", "spill", "done", "run", "failed"}
  /\ pos \in Nat \ {0}
  /\ oper \in Nat \ {0}
  /\ next \in Nat \ {0}
  /\ ranges \in Seq(LiveRange)
  /\ table \in [Virtual -> Physical \union {NoRegister}]

(* No register is given to two ranges that overlap, be they of virtual     *)
(* registers or of the physical ones an instruction asks for by name.  The *)
(* allocator looks at one range at a time, the physical ranges are split   *)
(* by kills alone.                                                         *)
AllocDisjoint ==
  \A i, j \in DOMAIN ranges :
    /\ i # j
    /\ ranges[i].alloc # NoRegister
    /\ ranges[i].alloc = ranges[j].alloc
    => ~OverlapsBounds(ranges[i], ranges[j].start, ranges[j].end)

(* A virtual register has one range: the entry of the table is the         *)
(* register of every use, whichever range it is taken from.                *)
OneRangeEach ==
  \A i, j \in DOMAIN ranges :
    ranges[i].reg \in Virtual /\ ranges[i].reg = ranges[j].reg => i = j
=============================================================================
