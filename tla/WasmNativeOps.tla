--------------------------- MODULE WasmNativeOps ---------------------------
(***************************************************************************)
(* What psizam's x86_64 code generator emits for the instructions without  *)
(* control flow (x86_64.hpp).  A program is the sequence of the writer's   *)
(* own primitives an emit function calls; a table gives the set of         *)
(* programs of the instructions that share a name, one for each way the    *)
(* source has (operand types, soft float or not, backtraces or not).       *)
(* Machine instructions are abstracted to the number of 8-byte slots they  *)
(* push; those between two uses of a primitive are one.                    *)
(***************************************************************************)
EXTENDS WasmOps, Sequences

Primitive(do, n, kinds, then, otherwise) ==
  [do |-> do, n |-> n, to |-> 0, kinds |-> kinds, then |-> then, otherwise |-> otherwise]

(* Instructions that move rsp by n slots, and those that do not.           *)
rsp_by(n) == Primitive("bytes", n, {}, <<>>, <<>>)

bytes == rsp_by(0)

push_reg == Primitive("push", 0, {}, <<>>, <<>>)

pop_reg == Primitive("pop", 0, {}, <<>>, <<>>)

push_v128 == Primitive("push_v128", 0, {}, <<>>, <<>>)

pop_v128 == Primitive("pop_v128", 0, {}, <<>>, <<>>)

(* push_recent_op: the last two instructions are remembered as an op.      *)
recent(kind) == Primitive("recent", 0, {kind}, <<>>, <<>>)

(* try_pop_recent_op: what is emitted if the last op is of one of the      *)
(* kinds, instead of it, and what otherwise.                               *)
fold(kinds, then, otherwise) == Primitive("fold", 0, kinds, then, otherwise)

pops(n) == [i \in 1 .. n |-> pop_reg]

(* The call of a C++ function that saves the context and the memory base,  *)
(* with the two slots of a backtrace or without.                           *)
Backtraces == {0, 2}

emit_setup_backtrace(bt) == IF bt = 0 THEN <<>> ELSE <<rsp_by(bt)>>

emit_restore_backtrace(bt) == IF bt = 0 THEN <<>> ELSE <<rsp_by(-bt)>>

Helper(bt) ==
  emit_setup_backtrace(bt) \o <<push_reg, push_reg, bytes, pop_reg, pop_reg>> \o emit_restore_backtrace(bt)

Helpers(n, result) == {pops(n) \o Helper(bt) \o result : bt \in Backtraces}

-----------------------------------------------------------------------------
native_parametric ==
  [nop |-> {<<>>}, drop |-> {<<pop_reg>>}, v128_drop |-> {<<rsp_by(-2)>>},
   select |-> {<<pop_reg, pop_reg, pop_reg, bytes, push_reg>>},
   v128_select |-> {<<pop_reg, bytes, rsp_by(-2)>>}]

native_locals ==
  [get_local |-> {<<bytes, push_reg, recent("get_local")>>}, v128_get_local |-> {<<bytes, rsp_by(2)>>},
   set_local |-> {<<pop_reg, bytes>>}, v128_set_local |-> {<<bytes, rsp_by(-2)>>},
   tee_local |-> {<<pop_reg, bytes, push_reg>>}, v128_tee_local |-> {<<bytes>>}]

native_globals ==
  [get_global |-> {<<bytes, push_reg>>}, v128_get_global |-> {<<bytes, push_v128>>},
   set_global |-> {<<pop_reg, bytes>>}, v128_set_global |-> {<<pop_v128, bytes>>}]

Load == {<<pop_reg, bytes, push_reg>>}

Store == {<<pop_reg, pop_reg, bytes>>}

native_load == [load |-> Load]

native_store == [store |-> Store]

native_memory ==
  [current_memory |-> Helpers(0, <<push_reg>>), grow_memory |-> Helpers(1, <<push_reg>>),
   memory_init |-> Helpers(3, <<>>), data_drop |-> Helpers(0, <<>>)]

native_table ==
  [table_get |-> Helpers(1, <<push_reg>>), table_set |-> Helpers(2, <<>>),
   ref_null |-> {<<bytes, push_reg>>}, ref_is_null |-> {<<pop_reg, bytes, push_reg>>},
   ref_func |-> {<<bytes, push_reg>>}, table_grow |-> Helpers(2, <<push_reg>>),
   table_size |-> Helpers(0, <<push_reg>>), table_fill |-> Helpers(3, <<>>)]

native_segments == [table_init |-> Helpers(3, <<>>), elem_drop |-> Helpers(0, <<>>)]

native_atomic ==
  [atomic_fence |-> {<<>>}, atomic_notify |-> {<<pop_reg, pop_reg, bytes, push_reg>>},
   atomic_wait |-> {<<pop_reg, pop_reg, pop_reg, bytes, push_reg>>},
   atomic_load |-> Load, atomic_store |-> Store,
   atomic_rmw |-> {<<pop_reg, bytes, pop_reg>> \o Helper(bt) \o <<push_reg>> : bt \in Backtraces},
   atomic_cmpxchg |-> Helpers(3, <<push_reg>>)]

i64_const == <<bytes, push_reg, recent("i64_const")>>

native_const ==
  [const |-> {<<bytes, push_reg, recent("i32_const")>>, i64_const, <<bytes, push_reg>>}]

(* A comparison leaves the flags, sets a register from them, pushes it.    *)
Condition == <<bytes, bytes, push_reg, recent("condition")>>

native_i32_compare ==
  [i32_test |-> {<<pop_reg>> \o Condition}]

emit_i32_relop ==
  [i32_compare |-> {<<fold({"i32_const", "get_local"}, <<pop_reg>>, <<pop_reg, pop_reg>>)>> \o Condition}]

native_i64_compare == [i64_test |-> {<<pop_reg>> \o Condition}]

(* A constant that does not fit into 32 bits is pushed again.              *)
emit_i64_relop ==
  [i64_compare |->
     {<<fold({"i64_const", "get_local"}, <<pop_reg>>, <<pop_reg, pop_reg>>)>> \o Condition,
      <<fold({"i64_const"}, i64_const, <<>>), fold({"get_local"}, <<pop_reg>>, <<pop_reg, pop_reg>>)>>
        \o Condition}]

(* In place, or with soft float.                                           *)
emit_f32_relop ==
  [f32_compare |-> {<<bytes, rsp_by(-2), bytes, rsp_by(1)>>} \cup
     {emit_setup_backtrace(bt) \o <<rsp_by(2), bytes, rsp_by(-2), bytes, rsp_by(-1 - bt), bytes>> :
        bt \in Backtraces}]

emit_f64_relop == [f64_compare |-> emit_f32_relop.f32_compare]

-----------------------------------------------------------------------------
(* The binary integer operations, with the recent ops each folds.          *)
Binop(kinds) == <<fold(kinds, <<pop_reg>>, <<pop_reg, pop_reg>>), bytes, push_reg>>

RawBinop(kinds) ==
  <<fold(kinds, <<pop_reg, bytes, push_reg>>, <<rsp_by(-1), rsp_by(-1), bytes, rsp_by(1)>>)>>

native_i32_unop == [i32_unop |-> {<<pop_reg, bytes, push_reg>>}]

native_i32_add_mul == {Binop({"get_local", "i32_const"}), Binop({"get_local"}), Binop({})}

native_i32_shift == {Binop({"get_local", "i32_const"}), Binop({"i32_const"})}

native_i32_binop == [i32_binop |-> native_i32_add_mul \cup native_i32_shift]

native_i64_unop == [i64_unop |-> {<<rsp_by(-1), bytes, rsp_by(1)>>}]

native_i64_add_rem ==
  {Binop({"get_local", "i64_const"}), RawBinop({"get_local", "i64_const"}), Binop({"get_local"}), RawBinop({})}

native_i64_shift == {RawBinop({"get_local", "i64_const"}), Binop({"i64_const"}), RawBinop({"i64_const"})}

native_i64_binop == [i64_binop |-> native_i64_add_rem \cup native_i64_shift]

-----------------------------------------------------------------------------
(* The float operations work in place, or call soft float.                 *)

emit_softfloat_unop ==
  {emit_setup_backtrace(bt) \o <<rsp_by(2), bytes, rsp_by(-2)>> \o emit_restore_backtrace(bt) \o <<bytes>> :
     bt \in Backtraces}

emit_f32_binop_softfloat ==
  {emit_setup_backtrace(bt) \o <<rsp_by(2), bytes, rsp_by(-2), bytes, rsp_by(-1 - bt), bytes>> :
     bt \in Backtraces}

emit_f64_binop_softfloat == emit_f32_binop_softfloat

FloatUnop == {<<rsp_by(-1), bytes, rsp_by(1)>>, <<bytes>>} \cup emit_softfloat_unop

FloatBinop == {<<bytes, rsp_by(-1), bytes>>, <<rsp_by(-1), rsp_by(-1), bytes, rsp_by(1)>>}

native_f32_unop == [f32_unop |-> FloatUnop]

native_f32_binop == [f32_binop |-> FloatBinop \cup emit_f32_binop_softfloat]

native_f64_unop == [f64_unop |-> FloatUnop]

native_f64_binop == [f64_binop |-> FloatBinop \cup emit_f64_binop_softfloat]

InPlace == {<<bytes>>} \cup emit_softfloat_unop

native_trunc == [trunc |-> InPlace]

native_trunc_sat == [trunc_sat |-> emit_softfloat_unop]

(* i32.wrap_i64 and the sign extensions; i64.extend_u_i32 and the          *)
(* reinterpretations emit nothing.                                         *)
native_extend == [extend |-> {<<pop_reg, bytes, push_reg>>, <<bytes>>, <<>>}]

native_convert == [convert |-> {<<>>} \cup InPlace]

-----------------------------------------------------------------------------
(* v128: two slots.                                                        *)

native_v128_load == [v128_load |-> {<<pop_reg, bytes, push_v128>>}]

native_v128_lane_memory ==
  [v128_store |-> {<<bytes, rsp_by(-2), rsp_by(-1), bytes>>},
   load_lane |-> {<<pop_v128, rsp_by(-1), bytes, rsp_by(2)>>},
   store_lane |-> {<<bytes, rsp_by(-2), rsp_by(-1), bytes>>}]

native_v128_const == [v128_const |-> {i64_const \o i64_const}]

Unop128 == <<bytes>>

Binop128 == <<bytes, rsp_by(-2), bytes>>

Test128 == <<bytes, rsp_by(-2), bytes, push_reg>>

Shift128 == <<pop_reg, bytes>>

native_lanes ==
  [shuffle |-> {Binop128}, extract_lane |-> {<<bytes, rsp_by(-2), bytes, push_reg>>},
   replace_lane |-> {<<pop_reg, bytes>>}, swizzle |-> {Binop128}, splat |-> {<<bytes, rsp_by(1), bytes>>}]

emit_v128_unop_softfloat ==
  {Helper(bt) \o <<bytes>> : bt \in Backtraces}

emit_v128_binop_softfloat ==
  {emit_setup_backtrace(bt) \o <<push_reg, push_reg, bytes, pop_reg, pop_reg, bytes, rsp_by(-2 - bt), bytes>> :
     bt \in Backtraces}

emit_v128_ternop_softfloat ==
  {emit_setup_backtrace(bt) \o <<push_reg, push_reg, bytes, pop_reg, pop_reg, bytes, rsp_by(-4 - bt), bytes>> :
     bt \in Backtraces}

native_v128_narrow_compare == {Binop128}

native_v128_wide_compare == {Binop128}

native_v128_float_compare == emit_v128_binop_softfloat

native_v128_compare ==
  [v128_compare |-> native_v128_narrow_compare \cup native_v128_wide_compare \cup native_v128_float_compare]

native_v128_bitwise ==
  [v128_not |-> {Unop128}, v128_bitwise |-> {Binop128}, bitselect |-> {<<bytes, rsp_by(-4), bytes>>},
   any_true |-> {Test128}]

native_i8x16 ==
  [i8x16_unop |-> {Unop128}, i8x16_test |-> {Test128}, i8x16_shift |-> {Shift128}, i8x16_binop |-> {Binop128}]

native_i16x8 ==
  [i16x8_unop |-> {Unop128}, i16x8_test |-> {Test128}, i16x8_shift |-> {Shift128}, i16x8_binop |-> {Binop128}]

native_i32x4 ==
  [i32x4_unop |-> {Unop128}, i32x4_test |-> {Test128}, i32x4_shift |-> {Shift128}, i32x4_binop |-> {Binop128}]

native_i64x2 ==
  [i64x2_unop |-> {Unop128}, i64x2_test |-> {Test128}, i64x2_shift |-> {Shift128}, i64x2_binop |-> {Binop128}]

native_fxx ==
  [fxx_unop |-> emit_v128_unop_softfloat, fxx_binop |-> emit_v128_binop_softfloat]

native_v128_convert == [v128_convert |-> emit_v128_unop_softfloat]

native_relaxed ==
  [relaxed_madd |-> emit_v128_ternop_softfloat, relaxed_dot |-> emit_v128_binop_softfloat,
   relaxed_dot_add |-> emit_v128_ternop_softfloat]

native_bulk ==
  [memory_fill |-> {<<pop_reg, pop_reg, pop_reg, bytes>>},
   memory_copy |-> {<<pop_reg, pop_reg, pop_reg, bytes>>},
   table_copy |-> {<<pop_reg, pop_reg, pop_reg, bytes>>} \cup Helpers(3, <<>>)]

Emitted ==
  native_parametric @@ native_locals @@ native_globals @@ native_load @@ native_store @@ native_memory
    @@ native_table @@ native_segments @@ native_atomic @@ native_const @@ native_i32_compare
    @@ emit_i32_relop @@ native_i64_compare @@ emit_i64_relop @@ emit_f32_relop @@ emit_f64_relop
    @@ native_i32_unop @@ native_i32_binop @@ native_i64_unop @@ native_i64_binop @@ native_f32_unop
    @@ native_f32_binop @@ native_f64_unop @@ native_f64_binop @@ native_trunc @@ native_trunc_sat
    @@ native_extend @@ native_convert @@ native_v128_load @@ native_v128_lane_memory
    @@ native_v128_const @@ native_lanes @@ native_v128_compare @@ native_v128_bitwise
    @@ native_i8x16 @@ native_i16x8 @@ native_i32x4 @@ native_i64x2 @@ native_fxx
    @@ native_v128_convert @@ native_relaxed @@ native_bulk

=============================================================================
