---------------------------- MODULE WasmNative ----------------------------
(***************************************************************************)
(* psizam's x86_64 backend: the code generator (x86_64.hpp), which turns   *)
(* the opcodes the parser of Wasm accepted into machine code in one pass,  *)
(* and the execution of that code, with the exception runtime              *)
(* (eh_runtime.cpp, jit_execution_context).                                *)
(*                                                                         *)
(* The generator keeps the operands on the machine stack and folds: a push *)
(* that has just been emitted (recent_ops) is taken back when the next     *)
(* instruction would pop it.  So what is in the text is not one piece per  *)
(* opcode, and whether the stack is as high as the validator said depends  *)
(* on what came before and on the fold never reaching across a label.      *)
(*                                                                         *)
(* The parser of Wasm calls the writer as it goes; here the calls are      *)
(* replayed in the same order when the body is complete.  rsp counts the   *)
(* 8-byte slots in use; a machine instruction is the slots it pushes, or   *)
(* a control transfer.  Of the two call limits it is the one in calls.     *)
(***************************************************************************)
EXTENDS Wasm, WasmNativeOps

VARIABLES
  writer,       \* machine_code_writer: text, recent_ops, and what is left to emit
  jit,          \* "none", "emitting", "ready", "running" or "trapped"
  rip, rsp, rbp, ebx,       \* registers; ebx counts the calls that are left
  eax, matched, \* what setjmp returned, and jit_eh_matched_catch
  frames,       \* return addresses on the stack, with the rbp saved above each
  jit_eh        \* _jit_eh_stack

machineVars == <<rip, rsp, rbp, ebx, frames>>

throwVars == <<eax, matched, jit_eh>>

nativeVars == <<writer, jit, rip, rsp, rbp, ebx, eax, matched, frames, jit_eh>>

allVars == <<vars, nativeVars>>

(* The machine code, and the address of each bytecode instruction.         *)
text == writer.text

address == writer.address

-----------------------------------------------------------------------------
(* The writer: the text so far; the two recent ops, of which r1 is the     *)
(* later one; src, the bytecode instruction being emitted; the forward     *)
(* jumps to patch; the programs of src still to come; and whether a folded *)
(* pop wants the register that was pushed.                                 *)

NoOp == [start |-> 0, end |-> -1, kind |-> "none"]

NewWriter ==
  [text |-> <<>>, address |-> <<>>, r0 |-> NoOp, r1 |-> NoOp, src |-> 0, patches |-> <<>>, pending |-> <<>>,
   same |-> FALSE]

emit(w, do, n, to) == [w EXCEPT !.text = Append(@, [do |-> do, n |-> n, to |-> to, src |-> w.src])]

emit_bytes(w, n) == emit(w, "bytes", n, 0)

push_recent_op(w, length, kind) ==
  [w EXCEPT !.r0 = IF w.r1.end # Len(w.text) THEN w.r1 ELSE @,
            !.r1 = [start |-> Len(w.text) - length, end |-> Len(w.text), kind |-> kind]]

RecentKind(w) == IF w.r1.end = Len(w.text) THEN w.r1.kind ELSE "none"

try_pop_recent_op(w) ==
  [w EXCEPT !.text = SubSeq(@, 1, w.r1.start), !.r1 = w.r0, !.r0 = NoOp]

(* As set_branch_target, but the recent ops stay.                          *)
set_branch_target_KeepsRecent(w) == w

set_branch_target(w) == [w EXCEPT !.r0 = NoOp, !.r1 = NoOp]

emit_push(w) == push_recent_op(emit_bytes(w, 1), 1, "push")

Moved(w) == IF w.same THEN w ELSE emit_bytes(w, 0)

(* try_undo_push: the push is the last byte of a get_local.                *)
emit_pop(w) ==
  LET kind == RecentKind(w) IN
  CASE kind \in {"i32_const", "i64_const"} -> emit_bytes(try_pop_recent_op(w), 0)
    [] kind = "push" -> Moved(try_pop_recent_op(w))
    [] kind = "get_local" -> Moved([w EXCEPT !.text = Front(@), !.r0 = NoOp, !.r1 = NoOp])
    [] OTHER -> emit_bytes(w, -1)

emit_push_v128(w) == push_recent_op(emit_bytes(w, 2), 1, "push_v128")

emit_pop_v128(w) ==
  IF RecentKind(w) = "push_v128" THEN Moved(try_pop_recent_op(w)) ELSE emit_bytes(w, -2)

(* fix_branch, for the jumps that are not to a scope's label.              *)
fix_branch_here(w) == [w EXCEPT !.text[Last(w.patches)].to = Len(w.text) + 1, !.patches = Front(@)]

Simple(w, m) ==
  CASE m.do = "push" -> emit_push(w)
    [] m.do = "pop" -> emit_pop(w)
    [] m.do = "push_v128" -> emit_push_v128(w)
    [] m.do = "pop_v128" -> emit_pop_v128(w)
    [] m.do = "recent" -> push_recent_op(w, 2, CHOOSE kind \in m.kinds : TRUE)
    [] m.do \in {"skip", "jz", "unless"} ->
         emit([w EXCEPT !.patches = Append(@, Len(w.text) + 1)], m.do, m.n, 0)
    [] m.do = "here" -> fix_branch_here(w)
    [] OTHER -> emit(w, m.do, m.n, m.to)

EmitOne(w, m) ==
  IF m.do # "fold" THEN Simple(w, m)
  ELSE IF RecentKind(w) \in m.kinds THEN FoldLeft(Simple, try_pop_recent_op(w), m.then)
  ELSE FoldLeft(Simple, w, m.otherwise)

EmitAll(w, program) == FoldLeft(EmitOne, w, program)

-----------------------------------------------------------------------------
(* The opcodes with control flow.  A jump names the bytecode instruction   *)
(* the parser will patch it to.                                            *)

Control(do) == Primitive(do, 0, {}, <<>>, <<>>)

Jump(do, to) == [Control(do) EXCEPT !.to = to]

(* A jump `do' around a program.                                           *)
Around(do, n, program) == <<[Control(do) EXCEPT !.n = n]>> \o program \o <<Control("here")>>

is_simple_multipop(b) == b.depth = b.count

emit_multipop(b) ==
  CASE is_simple_multipop(b) -> <<>>
    [] b.count = 0 -> <<rsp_by(-b.depth)>>
    [] b.count = 1 -> <<bytes, rsp_by(-b.depth), push_reg>>
    [] b.count > 1 -> IF b.depth < b.count THEN <<>> ELSE <<bytes, rsp_by(b.count - b.depth)>>

emit_prologue == <<Control("enter"), Control("gas"), rsp_by(Locals)>>

(* With one scalar result, in rax; with none; or with results of two slots *)
(* or more, a v128 or several.                                             *)
emit_epilogue ==
  (IF Results = 1 THEN <<pop_reg>> ELSE IF Results > 1 THEN <<bytes>> ELSE <<>>)
    \o (IF Locals > 0 \/ Results > 1 THEN <<Control("mov_rsp_rbp")>> ELSE <<>>)
    \o <<Control("pop_rbp"), Control("ret")>>

emit_eh_leave == <<push_reg, push_reg, Control("eh_leave"), pop_reg, pop_reg>>

EhLeaves(n) == FlattenSeq([i \in 1 .. n |-> emit_eh_leave])

emit_br(b) == emit_multipop(b) \o <<Jump("jmp", b.pc)>>

Taken(b) == EhLeaves(b.leaves) \o emit_br(b)

Plainly(b) == b.leaves = 0 /\ is_simple_multipop(b)

Test == <<fold({"condition"}, <<>>, <<pop_reg, bytes>>)>>

emit_if(to) == Test \o <<Jump("jcc", to)>>

emit_br_if(b) == Test \o (IF Plainly(b) THEN <<Jump("jcc", b.pc)>> ELSE Around("skip", 0, Taken(b)))

(* br_table_generator, for one case and the default: the jump to the       *)
(* default is the branch itself when there is nothing to pop.              *)
emit_br_table(case, default) ==
  <<pop_reg, bytes>> \o
    (IF Plainly(default) THEN <<Jump("jcc", default.pc)>> \o Taken(case)
     ELSE Around("skip", 0, Taken(case)) \o Taken(default))

(* emit_multipop(ft): the results of a call, one in rax, several in        *)
(* _multi_return, or a v128 in xmm0.                                       *)
emit_multipop_call(v128) ==
  IF v128 THEN (IF Params = 2 THEN <<bytes>> ELSE <<rsp_by(2 - Params), bytes>>)
  ELSE (IF Params # 0 THEN <<rsp_by(-Params)>> ELSE <<>>)
         \o (IF Results = 1 THEN <<push_reg>>
             ELSE FlattenSeq([i \in 1 .. Results |-> <<bytes, push_reg>>]))

emit_check_call_depth == <<Control("dec_ebx")>>

emit_check_call_depth_end == <<Control("inc_ebx")>>

(* An indirect call pops the index and looks its target up.                *)
emit_call(f, v128) ==
  emit_check_call_depth \o (IF f = "indirect" THEN <<pop_reg, bytes>> ELSE <<>>)
    \o <<Control("call")>> \o emit_multipop_call(v128) \o emit_check_call_depth_end

(* Only a function of the same type without parameters takes over the      *)
(* frame.                                                                  *)
emit_tail_call(f, v128) ==
  IF f = "host" \/ Params # 0 THEN emit_call(f, v128)
  ELSE (IF f = "indirect" THEN <<pop_reg, bytes>> ELSE <<>>)
         \o <<Control("mov_rsp_rbp"), Control("pop_rbp"), Control("jmp_entry")>>

(* Whole pairs of slots.                                                   *)
Aligned(n) == 2 * ((n + 1) \div 2)

(* The payload is copied into a buffer of at least 16 bytes, with 8 bytes  *)
(* for each parameter of the tag.                                          *)
Buffer(tag) == IF TagParams[tag] = 0 THEN 2 ELSE Aligned(TagParams[tag])

emit_throw(tag) == <<rsp_by(Buffer(tag)), bytes, Control("throw")>>

emit_throw_ref == <<pop_reg, bytes, Control("throw_ref")>>

(* One handler of a try_table: leave the frames and the operands between   *)
(* the try_table and the target, push the payload, one slot for each       *)
(* parameter of the tag, a v128 too, which the validator counts as two.    *)
Handler(clause, b) ==
  EhLeaves(b.leaves)
    \o (IF b.depth > 0 THEN <<rsp_by(-b.depth)>> ELSE <<>>)
    \o FlattenSeq([i \in 1 .. Payload(clause) |-> Helper(0) \o <<push_reg>>])
    \o <<Jump("jmp", b.pc)>>

(* eh_enter, setjmp, and behind the jump to the body the handlers, of      *)
(* which the last one is the default.                                      *)
emit_try_table(clauses, to) ==
  LET n == Len(clauses)
      data == Aligned(n)
  IN IF n = 0 THEN <<<<>>>>
     ELSE <<<<rsp_by(data), bytes, push_reg, push_reg, Control("eh_enter"), pop_reg, pop_reg, bytes,
              rsp_by(-data), Control("setjmp")>>,
            <<push_reg, bytes, push_reg, bytes, pop_reg, bytes, pop_reg, bytes, Control("jz")>> \o Helper(0)>>
          \o [k \in 1 .. n |-> IF k < n THEN Around("unless", k, Handler(clauses[k], to[k]))
                               ELSE Handler(clauses[k], to[k]) \o <<Control("here")>>]

(* The calls of set_branch_target: emit_end, emit_loop, and behind the     *)
(* jump of emit_else and emit_catch.                                       *)
IsLabel(i) ==
  \/ i \in ends
  \/ code[i].op = "gas_charge"
  \/ i > 1 /\ code[i - 1].op \in {"else", "catch"}

(* What is emitted for an instruction: a sequence of programs.  Results of *)
(* two slots are two scalars or a v128.                                    *)
Programs(i) ==
  LET op == code[i].op
      to == code[i].to
      arg == code[i].arg
      V128 == {FALSE} \cup {v \in {TRUE} : Results = 2}
  IN CASE op = "plain" -> {<<program>> : program \in Emitted[arg]}
       [] op = "call" -> {<<emit_call(arg, v128)>> : v128 \in V128}
       [] op = "tail_call" -> {<<emit_tail_call(arg, v128)>> : v128 \in V128}
       [] op \in {"unreachable", "rethrow"} -> {<<<<Control("trap")>>>>}
       [] op = "gas_charge" -> {<<<<Control("gas")>>>>}
       [] op = "if" -> {<<emit_if(to[1].pc)>>}
       [] op \in {"else", "catch"} -> {<<<<Jump("jmp", to[1].pc)>>>>}
       [] op = "br" -> {<<emit_br(to[1])>>}
       [] op = "br_if" -> {<<emit_br_if(to[1])>>}
       [] op = "br_table" -> {<<emit_br_table(to[1], to[2])>>}
       [] op = "return" -> {<<emit_epilogue>>}
       [] op = "try_table" -> {emit_try_table(arg, to)}
       [] op = "throw" -> {<<emit_throw(arg)>>}
       [] op = "throw_ref" -> {<<emit_throw_ref>>}
       [] op = "delegate" -> {<<IF arg = "leave" THEN emit_eh_leave ELSE <<>>>>}

Writing == UNCHANGED <<vars, machineVars, throwVars>>

start_function ==
  /\ state = "idle" /\ profile.native /\ jit = "none"
  /\ writer' = EmitAll(writer, emit_prologue)
  /\ jit' = "emitting"
  /\ Writing

(* The next instruction, or its next program.  Bound: the folded pops of a *)
(* program all want the register that was pushed, or none does.            *)
emit_instr ==
  /\ jit = "emitting" /\ writer.pending = <<>> /\ Len(address) < Len(code)
  /\ LET i == Len(address) + 1
         w == IF IsLabel(i) THEN set_branch_target(writer) ELSE writer
     IN \E programs \in Programs(i), same \in BOOLEAN :
          writer' = EmitAll([w EXCEPT !.src = i, !.address = Append(@, Len(w.text) + 1), !.same = same,
                                      !.pending = Tail(programs)], Head(programs))
  /\ UNCHANGED jit /\ Writing

emit_more ==
  /\ jit = "emitting" /\ writer.pending # <<>>
  /\ writer' = EmitAll([writer EXCEPT !.pending = Tail(@)], Head(writer.pending))
  /\ UNCHANGED jit /\ Writing

finalize ==
  /\ jit = "emitting" /\ writer.pending = <<>> /\ Len(address) = Len(code)
  /\ writer' = [NewWriter EXCEPT !.text = text, !.address = address]
  /\ jit' = "ready"
  /\ Writing

-----------------------------------------------------------------------------
(* The machine.                                                            *)

(* execute(): the trampoline pushes the arguments and calls.               *)
call_native ==
  /\ jit = "ready"
  /\ jit' = "running"
  /\ rip' = 1 /\ rsp' = Params + 1 /\ rbp' = 0 /\ ebx' = MaxCallDepth
  /\ frames' = <<[ret |-> Halt, slot |-> Params + 1, rbp |-> 0]>>
  /\ UNCHANGED <<vars, writer, throwVars>>

at_op(do) == jit = "running" /\ text[rip].do = do

Going == UNCHANGED <<vars, writer, jit>>

Labelled == {address[i] : i \in {j \in DOMAIN code : IsLabel(j)}}

(* Instructions up to the next control transfer or label.                  *)
run_bytes ==
  LET stop == Min({i \in rip + 1 .. Len(text) : text[i].do # "bytes" \/ i \in Labelled}) IN
  /\ at_op("bytes")
  /\ rip' = stop
  /\ rsp' = FoldLeft(LAMBDA sum, m : sum + m.n, rsp, SubSeq(text, rip, stop - 1))
  /\ UNCHANGED <<rbp, ebx, frames, throwVars>> /\ Going

Instruction(do) == at_op(do) /\ rip' = rip + 1 /\ Going

run_enter ==
  /\ Instruction("enter")
  /\ frames' = [frames EXCEPT ![Len(frames)].rbp = rbp]
  /\ rsp' = rsp + 1 /\ rbp' = rsp + 1
  /\ UNCHANGED <<ebx, throwVars>>

run_gas == Instruction("gas") /\ UNCHANGED <<rsp, rbp, ebx, frames, throwVars>>

(* longjmp out of the execution, by a handler or a signal.                 *)
escape ==
  /\ jit' = "trapped"
  /\ rip' = Halt /\ rsp' = 0 /\ rbp' = 0 /\ ebx' = 0 /\ frames' = <<>> /\ eax' = 0 /\ matched' = 0
  /\ UNCHANGED vars

run_trap ==
  /\ jit = "running"
  /\ \/ text[rip].do \in {"bytes", "trap", "gas", "call", "throw_ref"}
     \/ text[rip].do = "dec_ebx" /\ ebx = 1
  /\ escape
  /\ UNCHANGED <<writer, jit_eh>>

run_jump ==
  /\ \/ at_op("jmp") /\ rip' = address[text[rip].to]
     \/ at_op("jcc") /\ rip' \in {rip + 1, address[text[rip].to]}
     \/ at_op("skip") /\ rip' \in {rip + 1, text[rip].to}
  /\ UNCHANGED <<rsp, rbp, ebx, frames, throwVars>> /\ Going

run_dec_ebx ==
  /\ Instruction("dec_ebx")
  /\ ebx # 1
  /\ ebx' = ebx - 1
  /\ UNCHANGED <<rsp, rbp, frames, throwVars>>

run_inc_ebx ==
  /\ Instruction("inc_ebx")
  /\ ebx' = ebx + 1
  /\ UNCHANGED <<rsp, rbp, frames, throwVars>>

Calls(f) == code[text[rip].src].arg \in {f, "indirect"}

run_call ==
  /\ at_op("call") /\ Calls("self")
  /\ rip' = 1 /\ rsp' = rsp + 1
  /\ frames' = Append(frames, [ret |-> rip + 1, slot |-> rsp + 1, rbp |-> 0])
  /\ UNCHANGED <<rbp, ebx, throwVars>> /\ Going

(* The stub of a host function returns with the stack it was called with.  *)
run_host_call ==
  /\ Instruction("call") /\ Calls("host")
  /\ UNCHANGED <<rsp, rbp, ebx, frames, throwVars>>

run_mov_rsp_rbp ==
  /\ Instruction("mov_rsp_rbp")
  /\ rsp' = rbp
  /\ UNCHANGED <<rbp, ebx, frames, throwVars>>

run_pop_rbp ==
  /\ Instruction("pop_rbp")
  /\ rsp' = rsp - 1 /\ rbp' = Last(frames).rbp
  /\ UNCHANGED <<ebx, frames, throwVars>>

run_jmp_entry ==
  /\ at_op("jmp_entry") /\ Calls("self")
  /\ rip' = 1
  /\ UNCHANGED <<rsp, rbp, ebx, frames, throwVars>> /\ Going

run_ret ==
  /\ at_op("ret") \/ (at_op("jmp_entry") /\ Calls("host"))
  /\ rip' = Last(frames).ret /\ rsp' = rsp - 1
  /\ frames' = Front(frames)
  /\ jit' = IF Last(frames).ret = Halt THEN "ready" ELSE jit
  /\ UNCHANGED <<vars, writer, rbp, ebx, throwVars>>

run_eh_enter ==
  /\ Instruction("eh_enter")
  /\ jit_eh' = Append(jit_eh, [src |-> text[rip].src, rip |-> 0, rsp |-> 0, rbp |-> 0, ebx |-> 0])
  /\ UNCHANGED <<rsp, rbp, ebx, frames, eax, matched>>

run_setjmp ==
  /\ Instruction("setjmp")
  /\ jit_eh' = [jit_eh EXCEPT ![Len(jit_eh)] =
                  [@ EXCEPT !.rip = rip + 1, !.rsp = rsp, !.rbp = rbp, !.ebx = ebx]]
  /\ eax' = 0
  /\ UNCHANGED <<rsp, rbp, ebx, frames, matched>>

run_dispatch ==
  /\ \/ at_op("jz") /\ rip' = IF eax = 0 THEN text[rip].to ELSE rip + 1
     \/ at_op("unless") /\ rip' = IF matched = text[rip].n THEN rip + 1 ELSE text[rip].to
  /\ eax' = 0
  /\ UNCHANGED <<rsp, rbp, ebx, frames, matched, jit_eh>> /\ Going

run_eh_leave ==
  /\ Instruction("eh_leave")
  /\ jit_eh' = IF jit_eh = <<>> THEN jit_eh ELSE Front(jit_eh)
  /\ UNCHANGED <<rsp, rbp, ebx, frames, eax, matched>>

MatchingIn(i, tag) == {k \in DOMAIN code[jit_eh[i].src].arg : Catches(code[jit_eh[i].src].arg[k], tag)}

(* As try_match_exception, but the frame that matches stays.               *)
try_match_exception_KeepsFrame(tag) ==
  LET found == {i \in DOMAIN jit_eh : MatchingIn(i, tag) # {}} IN
  IF found = {} THEN escape /\ jit_eh' = <<>>
  ELSE LET i == Max(found)
           k == Min(MatchingIn(i, tag))
       IN /\ jit_eh' = SubSeq(jit_eh, 1, i)
          /\ matched' = k /\ eax' = 1
          /\ rip' = jit_eh[i].rip /\ rsp' = jit_eh[i].rsp /\ rbp' = jit_eh[i].rbp /\ ebx' = jit_eh[i].ebx
          /\ frames' = SelectSeq(frames, LAMBDA f : f.slot <= rsp')
          /\ exn' = IF code[jit_eh[i].src].arg[k].kind \in {"catch_ref", "catch_all_ref"}
                    THEN exn \cup {tag} ELSE exn
          /\ UNCHANGED <<parseVars, state, pc, stackVars, eh_stack, eh_catches, jit>>

(* The frames down to the one that matches are popped; longjmp restores    *)
(* the registers its setjmp saved, and with rsp the return addresses that  *)
(* are on the stack.  Without a match the exception leaves the execution.  *)
try_match_exception(tag) ==
  LET found == {i \in DOMAIN jit_eh : MatchingIn(i, tag) # {}} IN
  IF found = {} THEN escape /\ jit_eh' = <<>>
  ELSE LET i == Max(found)
           k == Min(MatchingIn(i, tag))
       IN /\ jit_eh' = SubSeq(jit_eh, 1, i - 1)
          /\ matched' = k /\ eax' = 1
          /\ rip' = jit_eh[i].rip /\ rsp' = jit_eh[i].rsp /\ rbp' = jit_eh[i].rbp /\ ebx' = jit_eh[i].ebx
          /\ frames' = SelectSeq(frames, LAMBDA f : f.slot <= rsp')
          /\ exn' = IF code[jit_eh[i].src].arg[k].kind \in {"catch_ref", "catch_all_ref"}
                    THEN exn \cup {tag} ELSE exn
          /\ UNCHANGED <<parseVars, state, pc, stackVars, eh_stack, eh_catches, jit>>

run_throw ==
  /\ \/ at_op("throw") /\ try_match_exception(code[text[rip].src].arg)
     \/ at_op("throw_ref") /\ \E tag \in exn : try_match_exception(tag)
  /\ UNCHANGED writer

-----------------------------------------------------------------------------
NativeInit ==
  /\ Init
  /\ writer = NewWriter /\ jit = "none"
  /\ rip = Halt /\ rsp = 0 /\ rbp = 0 /\ ebx = 0 /\ eax = 0 /\ matched = 0
  /\ frames = <<>> /\ jit_eh = <<>>

Machine ==
  \/ start_function \/ emit_instr \/ emit_more \/ finalize \/ call_native
  \/ run_bytes \/ run_enter \/ run_gas \/ run_trap \/ run_jump \/ run_dec_ebx
  \/ run_inc_ebx \/ run_call \/ run_host_call \/ run_mov_rsp_rbp \/ run_pop_rbp \/ run_jmp_entry \/ run_ret
  \/ run_eh_enter \/ run_setjmp \/ run_dispatch \/ run_eh_leave \/ run_throw

NativeNext == (Next /\ UNCHANGED nativeVars) \/ Machine

NativeSpec == NativeInit /\ [][NativeNext]_allVars

-----------------------------------------------------------------------------
(* The bytecode instructions whose machine code starts here with a label,  *)
(* or whose control transfer this is.                                      *)
Here ==
  {i \in DOMAIN code : IsLabel(i) /\ address[i] = rip}
    \cup (IF text[rip].do \in {"call", "trap", "throw"} THEN {text[rip].src} ELSE {})

(* What an instruction has pushed or popped when its transfer executes.    *)
Ahead ==
  CASE text[rip].do = "call" /\ code[text[rip].src].arg = "indirect" -> -1
    [] text[rip].do = "throw" -> Buffer(code[text[rip].src].arg)
    [] OTHER -> 0

(* Whatever was folded, and whatever path led there (fall-through, a       *)
(* branch, a return, a handler after longjmp), at each label, call, throw  *)
(* and trap the machine stack is as high as the validator computed, above  *)
(* the locals; code the validator took for unreachable never runs; and the *)
(* epilogue finds the saved rbp and the return address where they are, in  *)
(* functions whose epilogue does not reset rsp too (emit_pop,              *)
(* try_pop_recent_op, set_branch_target, emit_multipop, emit_epilogue).    *)
(* Labels with no code between them share an address.  It is stated for    *)
(* clauses that catch scalars: behind one that catches a v128 the stack is *)
(* a slot short.                                                           *)
NativeStackAsValidated ==
  jit = "running" =>
    /\ Here # {} => \E i \in Here : at[i].live
    /\ \A i \in Here : at[i].live => rsp = rbp + Locals + at[i].height + Ahead
    /\ text[rip].do = "pop_rbp" => rsp = rbp /\ rbp = Last(frames).slot + 1
    /\ text[rip].do \in {"ret", "jmp_entry"} => rsp = Last(frames).slot

(* The runtime's exception frames are those of the try_tables the program  *)
(* is inside, for every activation, and the register that counts the calls *)
(* agrees with the activations, although longjmp removes several of them   *)
(* at once (emit_eh_leave, try_match_exception, emit_check_call_depth).    *)
NativeSite(d) == IF d = Len(frames) THEN Max(Here) ELSE text[frames[d + 1].ret - 1].src

NativeEhFramesAreOpenTries ==
  jit = "running" /\ Here # {} =>
    /\ [i \in DOMAIN jit_eh |-> jit_eh[i].src] = FlattenSeq([d \in DOMAIN frames |-> at[NativeSite(d)].open])
    /\ ebx = MaxCallDepth - (Len(frames) - (IF text[rip].do = "call" THEN 0 ELSE 1))

=============================================================================
