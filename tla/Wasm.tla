------------------------------- MODULE Wasm -------------------------------
(***************************************************************************)
(* psizam's interpreter, from the validation of a function body to its     *)
(* execution.  The parser reads the opcodes of the body one by one (the    *)
(* body is what the model chooses), keeps the operand stack and the stack  *)
(* of open scopes, and emits bytecode with branches that are patched when  *)
(* their scope ends (parser.hpp, bitcode_writer.hpp).  The interpreter     *)
(* then runs that bytecode (interpret_visitor.hpp, execution_context.hpp): *)
(* branches unwind the operand stack by the amounts the parser computed,   *)
(* try_table pushes exception frames that every way out of its scope must  *)
(* pop, throw searches them and unwinds activations.                       *)
(*                                                                         *)
(* The function may call itself and one host function of its own type.     *)
(* Values are abstracted: the operand stack is its height, a condition may *)
(* go either way, and of the value types only v128 is told apart, as two   *)
(* slots of the native stack.  `at' is a history variable: what the        *)
(* validator knew about each emitted instruction.                          *)
(***************************************************************************)
EXTENDS WasmOps, SequencesExt

CONSTANTS
  Profiles,     \* kinds of functions: [native, params, locals, results], and what their
                \* bodies are made of: [ops, free, lead, types, tags, clauses, nested, code, dead]
  Tags, TagParams,          \* exception tags, and the number of values each carries
  TagSlots,                 \* the same in slots of the native stack
  FrameSize, MaxCallDepth   \* stack size of a function, and the budget for calls

ASSUME WasmAssumption ==
  /\ {FrameSize, MaxCallDepth} \subseteq Nat
  /\ FrameSize \in 1 .. MaxCallDepth
  /\ \A p \in Profiles : p.types \cup {<<p.params, p.results>>} \subseteq Nat \X Nat /\ p.locals \in Nat
  /\ {TagParams, TagSlots} \subseteq [Tags -> Nat]
  /\ \A tag \in Tags : TagSlots[tag] \in TagParams[tag] .. 2 * TagParams[tag]

VARIABLES
  profile,      \* the function's type and locals, and the opcodes its body is made of
  op_stack,     \* operand_stack_type_tracker::state: values, scope and unreachable tags
  pc_stack,     \* the open scopes, the function's first
  code,         \* the bytecode emitted so far
  at,           \* for each instruction: validated height, open try_tables, reachable or not
  ends,         \* the positions in the bytecode where the writer was told of an end
  state,        \* "parse", "idle", "running" or "returned"
  pc, size, base,           \* _state.pc, operand stack size, _last_op_index
  as,           \* activation frames
  eh_stack, eh_catches,     \* exception frames, and their catch entries
  exn,          \* tags of the caught exceptions an exnref may name
  remaining     \* _remaining_call_depth

parseVars == <<profile, op_stack, pc_stack, code, at, ends>>

stackVars == <<size, base, as, remaining>>

ehVars == <<eh_stack, eh_catches, exn>>

vars == <<profile, op_stack, pc_stack, code, at, ends, state, pc, size, base, as, eh_stack, eh_catches,
          exn, remaining>>

Halt == 0

(* Of the function, and of the host function.                              *)
Params == profile.params

Locals == profile.locals

Results == profile.results

-----------------------------------------------------------------------------
(* operand_stack_type_tracker.                                             *)

push(s, n) == s \o [i \in 1 .. n |-> "value"]

LastTag(s) == CHOOSE i \in DOMAIN s :
                s[i] # "value" /\ \A j \in i + 1 .. Len(s) : s[j] = "value"

LastScope(s) == CHOOSE i \in DOMAIN s :
                  s[i] = "scope" /\ \A j \in i + 1 .. Len(s) : s[j] # "scope"

(* Below an unreachable tag there is always another operand.               *)
CanPop(s, n) == Len(s) - LastTag(s) >= n \/ s[LastTag(s)] = "unreachable"

pop(s, n) == SubSeq(s, 1, IF Len(s) - n > LastTag(s) THEN Len(s) - n ELSE LastTag(s))

depth(s) == Cardinality({i \in DOMAIN s : s[i] = "value"})

start_unreachable(s) == Append(SubSeq(s, 1, LastScope(s)), "unreachable")

push_scope(s) == Append(s, "scope")

CanPopScope(s, n) == CanPop(s, n) /\ LastTag(s) = Len(pop(s, n))

pop_scope(s, n) == push(SubSeq(s, 1, LastScope(s) - 1), n)

-----------------------------------------------------------------------------
(* Scopes and labels.                                                      *)

Scope(kind, bt, s, start) ==
  [kind |-> kind, operand_depth |-> depth(s), params |-> bt[1], results |-> bt[2],
   start |-> start, relocations |-> {}]

Top == Last(pc_stack)

Labels == 0 .. Len(pc_stack) - 1

Target(label) == pc_stack[Len(pc_stack) - label]

Arity(scope) == IF scope.kind = "loop" THEN scope.params ELSE scope.results

(* As count_eh_leaves_for_branch, but without the target's own scope.      *)
count_eh_leaves_for_branch_Exclusive(label) ==
  Cardinality({i \in 0 .. label - 1 : Target(i).kind = "try_table"})

count_eh_leaves_for_branch(label) ==
  Cardinality({i \in 0 .. label : Target(i).kind = "try_table"})

compute_depth_change(s, label) == depth(s) - Target(label).operand_depth

(* A branch to a label: where (0 until its scope ends), how many operands  *)
(* the target's depth is below, how many of them it keeps, and how many    *)
(* exception frames it leaves.                                             *)
Branch(s, label, leaves) ==
  [pc |-> IF Target(label).kind = "loop" THEN Target(label).start ELSE 0,
   depth |-> compute_depth_change(s, label), count |-> Arity(Target(label)), leaves |-> leaves]

Forward == [pc |-> 0, depth |-> 0, count |-> 0, leaves |-> 0]

Instr(op, arg, to) == [op |-> op, arg |-> arg, to |-> to]

eh_leave == Instr("delegate", "leave", <<>>)

(* handle_branch_target, for the k-th branch of instruction i to labels[k]. *)
handle_branch_target(ps, labels, i) ==
  [n \in DOMAIN ps |->
     IF ps[n].kind = "loop" THEN ps[n]
     ELSE [ps[n] EXCEPT !.relocations = @ \cup
             {<<i, k>> : k \in {j \in DOMAIN labels : Len(ps) - labels[j] = n}}]]

fix_branch(body, addresses, target) ==
  [i \in DOMAIN body |->
     [body[i] EXCEPT !.to = [k \in DOMAIN @ |->
        IF <<i, k>> \in addresses THEN [@[k] EXCEPT !.pc = target] ELSE @[k]]]]

OpenTries ==
  SelectSeq([i \in DOMAIN pc_stack |->
               IF pc_stack[i].kind = "try_table" THEN pc_stack[i].start ELSE 0],
            LAMBDA t : t # 0)

Live == ~ Contains(op_stack, "unreachable")

(* What the validator knows before an opcode, when k frames are already    *)
(* left.                                                                   *)
Point(k) ==
  [live |-> Live, height |-> depth(op_stack),
   open |-> SubSeq(OpenTries, 1, Len(OpenTries) - k)]

Emit(instrs) ==
  /\ code' = code \o instrs
  /\ at' = at \o [i \in DOMAIN instrs |-> Point(0)]

(* k eh_leaves, then the instructions that leave the scopes.               *)
EmitLeaving(k, instrs) ==
  /\ code' = code \o [i \in 1 .. k |-> eh_leave] \o instrs
  /\ at' = at \o [i \in 1 .. k + Len(instrs) |-> Point(IF i <= k THEN i - 1 ELSE k)]
-----------------------------------------------------------------------------
(* The opcodes.  A PSIZAM_ASSERT that fails rejects the body: the action   *)
(* is not enabled.  Bounds: a body consists of opcodes of its profile, and *)
(* only ends follow when it has profile.code instructions; code that       *)
(* cannot be reached only starts within the first profile.dead.            *)
(* At most profile.nested scopes are open inside that of the function      *)
(* (max_nested_structures counts it too); profile.types has the block      *)
(* types <<params, results>>, profile.clauses the lists of catch clauses.  *)

Accepts(op) ==
  /\ state = "parse"
  /\ op \in profile.ops
  /\ Len(code) < profile.code
  /\ Live \/ Len(code) < profile.dead
  /\ UNCHANGED profile

Opcode(op) == Accepts(op) /\ UNCHANGED <<ends, state, pc, stackVars, ehVars>>

Nested == Len(pc_stack) <= profile.nested

unreachable ==
  /\ Opcode("unreachable")
  /\ Emit(<<Instr("unreachable", "", <<>>)>>)
  /\ op_stack' = start_unreachable(op_stack)
  /\ UNCHANGED pc_stack

(* The operands of an instruction without control flow, in the units the   *)
(* backend counts in.                                                      *)
Effect(name) == IF profile.native THEN Slots[name] ELSE Validated[name]

(* Of these instructions, those outside profile.free only follow those of  *)
(* profile.lead.                                                           *)
plain(name) ==
  /\ Opcode(name)
  /\ name \in profile.free \/ \A i \in DOMAIN code : code[i].op = "plain" /\ code[i].arg \in profile.lead
  /\ CanPop(op_stack, Effect(name)[1])
  /\ Emit(<<Instr("plain", name, <<>>)>>)
  /\ op_stack' = push(pop(op_stack, Effect(name)[1]), Effect(name)[2])
  /\ UNCHANGED pc_stack

(* As Open, but the parameters count for the depth of the scope.           *)
Open_DepthWithParams(kind, bt, s, start, ps) ==
  /\ CanPop(s, bt[1])
  /\ pc_stack' = Append(ps, Scope(kind, bt, s, start))
  /\ op_stack' = push(push_scope(pop(s, bt[1])), bt[1])

(* A scope opens: the parameters move from the enclosing scope into it.    *)
Open(kind, bt, s, start, ps) ==
  /\ CanPop(s, bt[1])
  /\ pc_stack' = Append(ps, Scope(kind, bt, pop(s, bt[1]), start))
  /\ op_stack' = push(push_scope(pop(s, bt[1])), bt[1])

block(bt) == Opcode("block") /\ Nested /\ Open("block", bt, op_stack, 0, pc_stack) /\ UNCHANGED <<code, at>>

loop(bt) ==
  /\ Opcode("loop") /\ Nested
  /\ Open("loop", bt, op_stack, Len(code) + 1, pc_stack)
  /\ Emit(<<Instr("gas_charge", "", <<>>)>>)

if(bt) ==
  /\ Opcode("if") /\ Nested
  /\ CanPop(op_stack, 1)
  /\ Open("if", bt, pop(op_stack, 1), Len(code) + 1, pc_stack)
  /\ Emit(<<Instr("if", "", <<Forward>>)>>)

(* The operands of a scope are replaced: pop the results, start again with *)
(* n values.                                                               *)
Restart(scope, n) ==
  /\ CanPopScope(op_stack, scope.results)
  /\ op_stack' = push(push_scope(pop_scope(op_stack, 0)), n)

(* else: the if's branch lands behind it, and else itself branches to end. *)
else ==
  /\ Opcode("else")
  /\ Top.kind = "if"
  /\ Restart(Top, Top.params)
  /\ code' = fix_branch(Append(code, Instr("else", "", <<Forward>>)), {<<Top.start, 1>>}, Len(code) + 2)
  /\ at' = Append(at, Point(0))
  /\ pc_stack' = [pc_stack EXCEPT ![Len(pc_stack)] =
                    [@ EXCEPT !.kind = "else", !.relocations = @ \cup {<<Len(code) + 1, 1>>}]]

(* exit_scope, after the instructions `first' of the opcode itself.  An if *)
(* with parameters and no else gets an else of its own.  At the end of the *)
(* function the epilogue adds its return.                                  *)
exit_scope(first) ==
  LET n == Len(code) + Len(first)
      synthetic == Top.kind = "if" /\ Top.params # 0
      extra == (IF synthetic THEN <<Instr("else", "", <<Forward>>)>> ELSE <<>>)
                 \o (IF Top.kind = "try_table" THEN <<eh_leave>> ELSE <<>>)
      closing == IF Len(pc_stack) = 1 THEN <<Instr("return", "", <<>>)>> ELSE <<>>
      to_end == Top.relocations
                  \cup (IF synthetic THEN {<<n + 1, 1>>} ELSE {})
                  \cup (IF Top.kind = "if" /\ ~ synthetic THEN {<<Top.start, 1>>} ELSE {})
      body == fix_branch(code \o first \o extra \o closing, to_end, n + Len(extra) + 1)
  IN /\ Top.kind = "if" => Top.params = Top.results
     /\ CanPopScope(op_stack, Top.results)
     /\ code' = IF synthetic THEN fix_branch(body, {<<Top.start, 1>>}, n + 2) ELSE body
     /\ at' = at \o [i \in DOMAIN (first \o extra) |-> Point(0)]
                 \o [i \in DOMAIN closing |-> [live |-> TRUE, height |-> Results, open |-> <<>>]]
     /\ op_stack' = pop_scope(op_stack, Top.results)
     /\ pc_stack' = Front(pc_stack)
     /\ ends' = IF profile.native THEN ends \cup {n + Len(extra) + 1} ELSE ends
     /\ state' = IF Len(pc_stack) = 1 THEN "idle" ELSE state
     /\ UNCHANGED <<pc, stackVars, ehVars>>

end == state = "parse" /\ exit_scope(<<>>) /\ UNCHANGED profile

Unconditional(label) ==
  LET k == count_eh_leaves_for_branch(label) IN
  /\ CanPop(op_stack, Arity(Target(label)))
  /\ EmitLeaving(k, <<Instr("br", "", <<Branch(op_stack, label, 0)>>)>>)
  /\ pc_stack' = handle_branch_target(pc_stack, <<label>>, Len(code) + k + 1)
  /\ op_stack' = start_unreachable(op_stack)

br(label) == Opcode("br") /\ Unconditional(label)

return == Opcode("return") /\ Unconditional(Len(pc_stack) - 1)

br_if(label) ==
  LET s == pop(op_stack, 1)
      n == Arity(Target(label))
  IN /\ Opcode("br_if")
     /\ CanPop(op_stack, 1) /\ CanPop(s, n)
     /\ Emit(<<Instr("br_if", "", <<Branch(s, label, count_eh_leaves_for_branch(label))>>)>>)
     /\ pc_stack' = handle_branch_target(pc_stack, <<label>>, Len(code) + 1)
     /\ op_stack' = push(pop(s, n), n)

(* The labels of a br_table, the default last.  Unless the stack is        *)
(* polymorphic, a loop's label (which carries parameters) and a block's    *)
(* do not mix.                                                             *)
br_table(labels) ==
  LET s == pop(op_stack, 1)
      n == Arity(Target(Last(labels)))
  IN /\ Opcode("br_table")
     /\ CanPop(op_stack, 1) /\ CanPop(s, n)
     /\ \A k \in DOMAIN labels :
          /\ Arity(Target(labels[k])) = n
          /\ \/ n = 0 \/ Last(s) = "unreachable"
             \/ (Target(labels[k]).kind = "loop") = (Target(Last(labels)).kind = "loop")
     /\ Emit(<<Instr("br_table", "", [k \in DOMAIN labels |->
                 Branch(s, labels[k], count_eh_leaves_for_branch(labels[k]))])>>)
     /\ pc_stack' = handle_branch_target(pc_stack, labels, Len(code) + 1)
     /\ op_stack' = start_unreachable(s)

(* Calls of the function itself or of the host function; the indirect ones *)
(* pop the table index first.                                              *)
call(f, index) ==
  /\ Opcode(IF index = 1 THEN "call_indirect" ELSE "call")
  /\ CanPop(op_stack, index + Params)
  /\ Emit(<<Instr("call", f, <<>>)>>)
  /\ op_stack' = push(pop(op_stack, index + Params), Results)
  /\ UNCHANGED pc_stack

(* The eh_leaves come before the tail call; the return behind it is dead   *)
(* unless the backend makes the tail call an ordinary one.                 *)
return_call(f, index) ==
  LET k == count_eh_leaves_for_branch(Len(pc_stack) - 1)
      s == push(pop(op_stack, index + Params), Results)
  IN /\ Opcode(IF index = 1 THEN "return_call_indirect" ELSE "return_call")
     /\ CanPop(op_stack, index + Params)
     /\ code' = code \o [i \in 1 .. k |-> eh_leave]
                   \o <<Instr("tail_call", f, <<>>), Instr("br", "", <<Branch(s, Len(pc_stack) - 1, 0)>>)>>
     /\ at' = at \o [i \in 1 .. k + 1 |-> Point(i - 1)] \o <<[Point(k) EXCEPT !.height = depth(s)]>>
     /\ pc_stack' = handle_branch_target(pc_stack, <<Len(pc_stack) - 1>>, Len(code) + k + 2)
     /\ op_stack' = start_unreachable(s)

-----------------------------------------------------------------------------
(* Exceptions.  A clause is [kind, tag, label]; the labels are those of    *)
(* the scopes around the try_table.                                        *)

(* The operands of a tag, in the units the backend counts in.              *)
TagOperands == IF profile.native THEN TagSlots ELSE TagParams

Carried(clause, operands) ==
  (IF clause.kind \in {"catch", "catch_ref"} THEN operands[clause.tag] ELSE 0)
    + (IF clause.kind \in {"catch_ref", "catch_all_ref"} THEN 1 ELSE 0)

(* payload_count: the values a handler pushes, whatever their types.       *)
Payload(clause) == Carried(clause, TagParams)

(* The depth a handler unwinds to is taken with the parameters still on    *)
(* the stack, as they are when the try_table runs.                         *)
CatchBranch(clause) ==
  [Branch(op_stack, clause.label, count_eh_leaves_for_branch(clause.label))
     EXCEPT !.count = Payload(clause)]

try_table(bt, clauses) ==
  LET labels == [k \in DOMAIN clauses |-> clauses[k].label]
      kind == IF clauses = <<>> THEN "block" ELSE "try_table"
  IN /\ Opcode("try_table") /\ Nested
     /\ \A k \in DOMAIN clauses :
          /\ labels[k] \in Labels
          /\ Arity(Target(labels[k])) = Carried(clauses[k], TagOperands)
     /\ Emit(<<Instr("try_table", clauses, [k \in DOMAIN clauses |-> CatchBranch(clauses[k])])>>)
     /\ Open(kind, bt, op_stack, Len(code) + 1, handle_branch_target(pc_stack, labels, Len(code) + 1))

throw(tag) ==
  /\ Opcode("throw")
  /\ CanPop(op_stack, TagOperands[tag])
  /\ Emit(<<Instr("throw", tag, <<>>)>>)
  /\ op_stack' = start_unreachable(op_stack)
  /\ UNCHANGED pc_stack

throw_ref ==
  /\ Opcode("throw_ref")
  /\ CanPop(op_stack, 1)
  /\ Emit(<<Instr("throw_ref", "", <<>>)>>)
  /\ op_stack' = start_unreachable(op_stack)
  /\ UNCHANGED pc_stack

(* The legacy handlers.  A catch in any scope but a loop's replaces the    *)
(* operands; on the normal path it branches to the end of the scope.       *)
try(bt) == Opcode("try") /\ Nested /\ Open("try", bt, op_stack, 0, pc_stack) /\ UNCHANGED <<code, at>>

catch(n) ==
  /\ Opcode("catch")
  /\ Top.kind # "loop"
  /\ Restart(Top, n)
  /\ Emit(<<Instr("catch", "", <<Forward>>)>>)
  /\ pc_stack' = handle_branch_target(pc_stack, <<0>>, Len(code) + 1)

rethrow(label) ==
  /\ Opcode("rethrow")
  /\ CanPop(op_stack, Arity(Target(label)))
  /\ Emit(<<Instr("rethrow", "", <<>>)>>)
  /\ op_stack' = start_unreachable(op_stack)
  /\ UNCHANGED pc_stack

(* delegate ends its scope and emits the instruction that eh_leave is.     *)
delegate(label) ==
  /\ Accepts("delegate")
  /\ CanPop(op_stack, Arity(Target(label)))
  /\ exit_scope(<<Instr("delegate", "legacy", <<>>)>>)

Parse ==
  \/ unreachable \/ else \/ end \/ return \/ throw_ref
  \/ \E name \in Plain : plain(name)
  \/ \E bt \in profile.types :
       \/ block(bt) \/ loop(bt) \/ if(bt) \/ try(bt)
       \/ \E clauses \in profile.clauses : try_table(bt, clauses)
  \/ \E label \in Labels : br(label) \/ br_if(label) \/ rethrow(label) \/ delegate(label)
  \/ \E labels \in [1 .. 2 -> Labels] : br_table(labels)
  \/ \E f \in {"self", "host"} : call(f, 0) \/ return_call(f, 0)
  \/ call("indirect", 1) \/ return_call("indirect", 1)
  \/ \E tag \in profile.tags : throw(tag) \/ catch(TagOperands[tag])
  \/ catch(0)

-----------------------------------------------------------------------------
(* The interpreter.                                                        *)

(* execute() pushes the arguments, the activation that halts, the locals.  *)
execute ==
  /\ state = "idle" /\ ~ profile.native
  /\ state' = "running"
  /\ pc' = 1
  /\ size' = Params + Locals
  /\ base' = 0
  /\ as' = <<[pc |-> Halt, base |-> base, frame |-> FrameSize]>>
  /\ remaining' = remaining - FrameSize
  /\ UNCHANGED <<parseVars, ehVars>>

(* The scope_guard of execute(), after a trap or a return.                 *)
cleanup ==
  /\ state' = "idle"
  /\ pc' = Halt
  /\ size' = 0 /\ base' = 0 /\ as' = <<>> /\ remaining' = MaxCallDepth
  /\ eh_stack' = <<>> /\ eh_catches' = <<>> /\ exn' = {}
  /\ UNCHANGED parseVars

finish == state = "returned" /\ cleanup

visiting(op) == state = "running" /\ code[pc].op = op

inc_pc == pc' = pc + 1 /\ UNCHANGED <<parseVars, state>>

visit_plain ==
  LET op == Visited[code[pc].arg] IN
  /\ visiting("plain")
  /\ inc_pc
  /\ size' = size - op[1] + op[3]
  /\ UNCHANGED <<base, as, remaining, ehVars>>

(* Instructions that trap, a gas charge that finds the gas exhausted, and  *)
(* calls of functions that throw a host error or that the table has not.   *)
visit_trap ==
  /\ state = "running"
  /\ \/ code[pc].op \in {"unreachable", "rethrow", "throw_ref", "gas_charge", "call", "tail_call"}
     \/ code[pc].op = "plain" /\ code[pc].arg \in MayTrap
  /\ cleanup

visit_gas_charge == visiting("gas_charge") /\ inc_pc /\ UNCHANGED <<stackVars, ehVars>>

(* jump(): the results move down to the target's depth.                    *)
jump(to, s) == pc' = to.pc /\ size' = s - to.depth + to.count

visit_if ==
  /\ visiting("if")
  /\ pc' \in {pc + 1, code[pc].to[1].pc}
  /\ size' = size - 1
  /\ UNCHANGED <<parseVars, state, base, as, remaining, ehVars>>

visit_else ==
  /\ visiting("else") \/ visiting("catch")
  /\ pc' = code[pc].to[1].pc
  /\ UNCHANGED <<parseVars, state, stackVars, ehVars>>

visit_br ==
  /\ visiting("br")
  /\ jump(code[pc].to[1], size)
  /\ UNCHANGED <<parseVars, state, base, as, remaining, ehVars>>

(* Pop n exception frames, with their catch entries, as far as there are.  *)
pop_eh_frames(n) ==
  LET left == IF n > Len(eh_stack) THEN 0 ELSE Len(eh_stack) - n IN
  /\ eh_stack' = SubSeq(eh_stack, 1, left)
  /\ eh_catches' = IF left = Len(eh_stack) THEN eh_catches
                   ELSE SubSeq(eh_catches, 1, eh_stack[left + 1].first_catch)

(* br_if, taken or not; br_table, to any of its labels.                    *)
visit_br_if ==
  /\ visiting("br_if")
  /\ \/ pc' = pc + 1 /\ size' = size - 1 /\ UNCHANGED <<eh_stack, eh_catches>>
     \/ jump(code[pc].to[1], size - 1) /\ pop_eh_frames(code[pc].to[1].leaves)
  /\ UNCHANGED <<parseVars, state, base, as, remaining, exn>>

visit_br_table ==
  /\ visiting("br_table")
  /\ \E k \in DOMAIN code[pc].to :
       jump(code[pc].to[k], size - 1) /\ pop_eh_frames(code[pc].to[k].leaves)
  /\ UNCHANGED <<parseVars, state, base, as, remaining, exn>>

visit_delegate ==
  /\ visiting("delegate")
  /\ inc_pc
  /\ pop_eh_frames(1)
  /\ UNCHANGED <<stackVars, exn>>

(* The index an indirect call pops; its table entry may be either function. *)
Index == IF code[pc].arg = "indirect" THEN 1 ELSE 0

Callee(f) == code[pc].arg \in {f, "indirect"}

visit_call ==
  /\ visiting("call") /\ Callee("self")
  /\ FrameSize <= remaining
  /\ remaining' = remaining - FrameSize
  /\ as' = Append(as, [pc |-> pc + 1, base |-> base, frame |-> FrameSize])
  /\ base' = size - Index - Params
  /\ size' = size - Index + Locals
  /\ pc' = 1
  /\ UNCHANGED <<parseVars, state, ehVars>>

visit_host_call ==
  /\ visiting("call") /\ Callee("host")
  /\ FrameSize <= remaining
  /\ inc_pc
  /\ size' = size - Index - Params + Results
  /\ UNCHANGED <<base, as, remaining, ehVars>>

(* The activation is kept, its frame size given back and taken again.      *)
visit_tail_call ==
  /\ visiting("tail_call") /\ Callee("self")
  /\ size' = base + Params + Locals
  /\ as' = [as EXCEPT ![Len(as)].frame = FrameSize]
  /\ remaining' = remaining + Last(as).frame - FrameSize
  /\ pc' = 1
  /\ UNCHANGED <<parseVars, state, base, ehVars>>

(* The activation on top returns: its caller's pc and locals come back.    *)
pop_call ==
  /\ as' = Front(as)
  /\ pc' = Last(as).pc
  /\ base' = Last(as).base
  /\ remaining' = remaining + Last(as).frame
  /\ state' = IF Last(as).pc = Halt THEN "returned" ELSE state
  /\ UNCHANGED <<parseVars, ehVars>>

visit_tail_host_call ==
  /\ visiting("tail_call") /\ Callee("host")
  /\ size' = base + Results
  /\ pop_call

(* apply_pop_call: the results move down over the locals.                  *)
visit_return ==
  /\ visiting("return")
  /\ size' = size - (Params + Locals)
  /\ pop_call

visit_try_table ==
  LET to == code[pc].to
      n == Len(to)
  IN /\ visiting("try_table")
     /\ inc_pc
     /\ eh_stack' = IF n = 0 THEN eh_stack
                    ELSE Append(eh_stack, [call_depth |-> Len(as), catch_count |-> n,
                                           first_catch |-> Len(eh_catches)])
     /\ eh_catches' = eh_catches \o
          [k \in 1 .. n |-> [clause |-> code[pc].arg[k], handler_pc |-> to[k].pc,
                             operand_depth |-> size - to[k].depth, leaves |-> to[k].leaves]]
     /\ UNCHANGED <<stackVars, exn>>

(* As unwind_call_stack_to, but the budget of the frames is not returned.  *)
unwind_call_stack_to_NoBudget(d) ==
  /\ as' = SubSeq(as, 1, d)
  /\ base' = IF Len(as) > d THEN as[d + 1].base ELSE base
  /\ UNCHANGED remaining

unwind_call_stack_to(d) ==
  /\ as' = SubSeq(as, 1, d)
  /\ base' = IF Len(as) > d THEN as[d + 1].base ELSE base
  /\ remaining' = FoldLeft(LAMBDA sum, frame : sum + frame.frame, remaining, SubSeq(as, d + 1, Len(as)))

Catches(clause, tag) == clause.kind \in {"catch_all", "catch_all_ref"} \/ clause.tag = tag

HandlersIn(i, tag) ==
  {c \in 1 .. eh_stack[i].catch_count : Catches(eh_catches[eh_stack[i].first_catch + c].clause, tag)}

Handling(tag) == {i \in DOMAIN eh_stack : HandlersIn(i, tag) # {}}

(* The first clause of frame i for the tag runs in the activation that     *)
(* entered the try_table, without that frame and without those of the      *)
(* scopes its label leaves.                                                *)
run_handler(i, tag) ==
  LET entry == eh_catches[eh_stack[i].first_catch + Min(HandlersIn(i, tag))] IN
  /\ unwind_call_stack_to(eh_stack[i].call_depth)
  /\ size' = entry.operand_depth + Payload(entry.clause)
  /\ exn' = IF entry.clause.kind \in {"catch_ref", "catch_all_ref"} THEN exn \cup {tag} ELSE exn
  /\ pop_eh_frames(Len(eh_stack) - i + 1 + entry.leaves)
  /\ pc' = entry.handler_pc
  /\ UNCHANGED <<parseVars, state>>

(* As dispatch_exception, but it searches from the outermost frame.        *)
dispatch_exception_Outermost(tag) ==
  IF Handling(tag) = {} THEN cleanup ELSE run_handler(Min(Handling(tag)), tag)

dispatch_exception(tag) ==
  IF Handling(tag) = {} THEN cleanup ELSE run_handler(Max(Handling(tag)), tag)

visit_throw == visiting("throw") /\ dispatch_exception(code[pc].arg)

visit_throw_ref == visiting("throw_ref") /\ \E tag \in exn : dispatch_exception(tag)

-----------------------------------------------------------------------------
Init ==
  /\ profile \in Profiles
  /\ op_stack = <<"scope">>
  /\ pc_stack = <<Scope("function", <<0, Results>>, <<>>, 0)>>
  /\ code = <<>> /\ at = <<>> /\ ends = {}
  /\ state = "parse" /\ pc = Halt
  /\ size = 0 /\ base = 0 /\ as = <<>> /\ remaining = MaxCallDepth
  /\ eh_stack = <<>> /\ eh_catches = <<>> /\ exn = {}

Run ==
  \/ execute \/ finish \/ visit_plain \/ visit_trap \/ visit_gas_charge \/ visit_if \/ visit_else
  \/ visit_br \/ visit_br_if \/ visit_br_table \/ visit_delegate \/ visit_call \/ visit_host_call
  \/ visit_tail_call \/ visit_tail_host_call \/ visit_return \/ visit_try_table \/ visit_throw
  \/ visit_throw_ref

Next == Parse \/ Run

Spec == Init /\ [][Next]_vars

-----------------------------------------------------------------------------
(* Type correctness, and no branch of an accepted body is left unpatched.  *)
TypeOK ==
  /\ state \in {"parse", "idle", "running", "returned"}
  /\ Len(at) = Len(code)
  /\ state = "running" <=> pc \in DOMAIN code
  /\ state # "parse" => \A i \in DOMAIN code : \A k \in DOMAIN code[i].to : code[i].to[k].pc \in DOMAIN code
  /\ {size, base, remaining} \subseteq Nat

(* Whatever the path that led to an instruction (fall-through, a branch    *)
(* that drops operands, a return, a handler of an exception thrown any     *)
(* number of activations deeper), the interpreter's operand stack is as    *)
(* high as the validator computed for it, above the locals of the          *)
(* function; and code the validator took for unreachable never runs        *)
(* (compute_depth_change, jump, dispatch_exception, apply_pop_call).  So   *)
(* no instruction touches an operand below those of its own function, and  *)
(* a return leaves the results and nothing else.                           *)
StackAsValidated ==
  /\ TypeOK
  /\ state = "running" =>
       /\ at[pc].live
       /\ size = base + Params + Locals + at[pc].height
       /\ code[pc].op = "plain" => LET op == Visited[code[pc].arg] IN op[1] + op[2] <= at[pc].height
  /\ state = "returned" => size = Results /\ as = <<>>

(* The exception frames are those of the try_tables the program is inside, *)
(* for every activation on the call stack: each br, br_if, br_table,       *)
(* return, tail call, handler and fall-through leaves exactly the frames   *)
(* of the scopes it leaves.                                                *)
CallSite(d) == IF d = Len(as) THEN pc ELSE as[d + 1].pc - 1

EhFramesAreOpenTries ==
  state = "running" =>
    eh_stack = FlattenSeq([d \in DOMAIN as |->
      [k \in DOMAIN at[CallSite(d)].open |->
         [call_depth |-> d, catch_count |-> Len(code[at[CallSite(d)].open[k]].to),
          first_catch |-> LET before == Len(FlattenSeq([e \in 1 .. d - 1 |-> at[CallSite(e)].open])) + k - 1
                          IN FoldLeft(LAMBDA sum, frame : sum + frame.catch_count, 0,
                                      SubSeq(eh_stack, 1, before))]]])

(* The budget for calls is what the activations on the stack leave of it,  *)
(* also when an exception removes several of them at once                  *)
(* (unwind_call_stack_to, tail_call, push_call, apply_pop_call).           *)
CallDepthBalanced ==
  state # "parse" =>
    remaining = FoldLeft(LAMBDA left, frame : left - frame.frame, MaxCallDepth, as)

(* An exception runs the handler the program's text gives it: the first    *)
(* clause for its tag in the innermost try_table around the throw, or      *)
(* around the innermost call that leads to it, and without one it ends the *)
(* execution (dispatch_exception).                                         *)
Enclosing(tag) ==
  {h \in {<<d, k, c>> : d \in DOMAIN as, k \in 1 .. profile.nested, c \in 1 .. Len(code)} :
     /\ h[2] \in DOMAIN at[CallSite(h[1])].open
     /\ h[3] \in DOMAIN code[at[CallSite(h[1])].open[h[2]]].arg
     /\ Catches(code[at[CallSite(h[1])].open[h[2]]].arg[h[3]], tag)}

Innermost(h, g) ==
  \/ h[1] > g[1]
  \/ h[1] = g[1] /\ h[2] > g[2]
  \/ h[1] = g[1] /\ h[2] = g[2] /\ h[3] <= g[3]

Delivered(tag) ==
  LET H == Enclosing(tag) IN
  IF H = {} THEN state' = "idle"
  ELSE \E h \in H :
         /\ \A g \in H : Innermost(h, g)
         /\ Len(as') = h[1]
         /\ pc' = code[at[CallSite(h[1])].open[h[2]]].to[h[3]].pc

CaughtByInnermostHandler ==
  [][/\ visiting("throw") => Delivered(code[pc].arg)
     /\ visiting("throw_ref") => state' = "idle" \/ \E tag \in exn : Delivered(tag)]_vars

=============================================================================
