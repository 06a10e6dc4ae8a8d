------------------------------ MODULE WasmOps ------------------------------
(***************************************************************************)
(* What the instructions without control flow do to the operand stack, as  *)
(* two independent readings of psizam: the operands the validator pops and *)
(* pushes (parser.hpp), and the operands the interpreter pops, overwrites  *)
(* in place and pushes (interpret_visitor.hpp).  Values are abstracted;    *)
(* instructions that treat the stack alike share a name.  Wasm executes    *)
(* what the one accepted with what the other does.                         *)
(***************************************************************************)
EXTENDS Integers, TLC

-----------------------------------------------------------------------------
(* The validator: <<operands popped, operands pushed>>.                    *)

parse_parametric ==
  [nop |-> <<0, 0>>, drop |-> <<1, 0>>, select |-> <<3, 1>>, get_local |-> <<0, 1>>, set_local |-> <<1, 0>>,
   tee_local |-> <<1, 1>>, get_global |-> <<0, 1>>, set_global |-> <<1, 0>>,
   ref_null |-> <<0, 1>>, ref_is_null |-> <<1, 1>>, ref_func |-> <<0, 1>>,
   table_get |-> <<1, 1>>, table_set |-> <<2, 0>>]

parse_memory ==
  [load |-> <<1, 1>>, store |-> <<2, 0>>, current_memory |-> <<0, 1>>, grow_memory |-> <<1, 1>>,
   const |-> <<0, 1>>]

parse_compare ==
  [i32_test |-> <<1, 1>>, i32_compare |-> <<2, 1>>, i64_test |-> <<1, 1>>, i64_compare |-> <<2, 1>>,
   f32_compare |-> <<2, 1>>, f64_compare |-> <<2, 1>>]

parse_arithmetic ==
  [i32_unop |-> <<1, 1>>, i32_binop |-> <<2, 1>>, i64_unop |-> <<1, 1>>, i64_binop |-> <<2, 1>>,
   f32_unop |-> <<1, 1>>, f32_binop |-> <<2, 1>>, f64_unop |-> <<1, 1>>, f64_binop |-> <<2, 1>>]

parse_cast == [trunc |-> <<1, 1>>, convert |-> <<1, 1>>, extend |-> <<1, 1>>]

parse_v128_memory ==
  [v128_load |-> <<1, 1>>, v128_store |-> <<2, 0>>, load_lane |-> <<2, 1>>,
   store_lane |-> <<2, 0>>, v128_const |-> <<0, 1>>, shuffle |-> <<2, 1>>,
   extract_lane |-> <<1, 1>>, replace_lane |-> <<2, 1>>]

parse_v128_compare ==
  [swizzle |-> <<2, 1>>, splat |-> <<1, 1>>, v128_compare |-> <<2, 1>>,
   v128_not |-> <<1, 1>>, v128_bitwise |-> <<2, 1>>, bitselect |-> <<3, 1>>, any_true |-> <<1, 1>>]

parse_v128_arithmetic ==
  [i8x16_unop |-> <<1, 1>>, i8x16_test |-> <<1, 1>>, i8x16_shift |-> <<2, 1>>,
   i8x16_binop |-> <<2, 1>>, i16x8_unop |-> <<1, 1>>, i16x8_test |-> <<1, 1>>,
   i16x8_shift |-> <<2, 1>>, i16x8_binop |-> <<2, 1>>, i32x4_unop |-> <<1, 1>>,
   i32x4_test |-> <<1, 1>>, i32x4_shift |-> <<2, 1>>, i32x4_binop |-> <<2, 1>>]

parse_v128_wide ==
  [i64x2_unop |-> <<1, 1>>, i64x2_test |-> <<1, 1>>, i64x2_shift |-> <<2, 1>>,
   i64x2_binop |-> <<2, 1>>, fxx_unop |-> <<1, 1>>, fxx_binop |-> <<2, 1>>,
   v128_convert |-> <<1, 1>>]

parse_relaxed ==
  [relaxed_madd |-> <<3, 1>>, relaxed_dot |-> <<2, 1>>, relaxed_dot_add |-> <<3, 1>>]

parse_ext ==
  [trunc_sat |-> <<1, 1>>, memory_init |-> <<3, 0>>, data_drop |-> <<0, 0>>,
   memory_copy |-> <<3, 0>>, memory_fill |-> <<3, 0>>, table_init |-> <<3, 0>>,
   elem_drop |-> <<0, 0>>, table_copy |-> <<3, 0>>, table_grow |-> <<2, 1>>,
   table_size |-> <<0, 1>>, table_fill |-> <<3, 0>>]

parse_atomic ==
  [atomic_fence |-> <<0, 0>>, atomic_notify |-> <<2, 1>>, atomic_wait |-> <<3, 1>>,
   atomic_load |-> <<1, 1>>, atomic_store |-> <<2, 0>>, atomic_rmw |-> <<2, 1>>,
   atomic_cmpxchg |-> <<3, 1>>]

Validated ==
  parse_parametric @@ parse_memory @@ parse_compare @@ parse_arithmetic @@ parse_cast
    @@ parse_v128_memory @@ parse_v128_compare @@ parse_v128_arithmetic @@ parse_v128_wide
    @@ parse_relaxed @@ parse_ext @@ parse_atomic

(* For the native backends the validator counts in slots of 8 bytes, and a *)
(* v128 takes two: what that adds to <<popped, pushed>>.                   *)
Wide ==
  [v128_load |-> <<0, 1>>, v128_store |-> <<1, 0>>, load_lane |-> <<1, 1>>, store_lane |-> <<1, 0>>,
   v128_const |-> <<0, 1>>, shuffle |-> <<2, 1>>, extract_lane |-> <<1, 0>>, replace_lane |-> <<1, 1>>,
   swizzle |-> <<2, 1>>, splat |-> <<0, 1>>, v128_compare |-> <<2, 1>>, v128_not |-> <<1, 1>>,
   v128_bitwise |-> <<2, 1>>, bitselect |-> <<3, 1>>, any_true |-> <<1, 0>>,
   fxx_unop |-> <<1, 1>>, fxx_binop |-> <<2, 1>>, v128_convert |-> <<1, 1>>,
   relaxed_madd |-> <<3, 1>>, relaxed_dot |-> <<2, 1>>, relaxed_dot_add |-> <<3, 1>>]
    @@ [name \in {"i8x16_unop", "i16x8_unop", "i32x4_unop", "i64x2_unop"} |-> <<1, 1>>]
    @@ [name \in {"i8x16_test", "i16x8_test", "i32x4_test", "i64x2_test"} |-> <<1, 0>>]
    @@ [name \in {"i8x16_shift", "i16x8_shift", "i32x4_shift", "i64x2_shift"} |-> <<1, 1>>]
    @@ [name \in {"i8x16_binop", "i16x8_binop", "i32x4_binop", "i64x2_binop"} |-> <<2, 1>>]

(* The instructions that take operands of any type, with a v128, in slots. *)
WideForms ==
  [v128_drop |-> <<2, 0>>, v128_select |-> <<5, 2>>, v128_get_local |-> <<0, 2>>,
   v128_set_local |-> <<2, 0>>, v128_tee_local |-> <<2, 2>>, v128_get_global |-> <<0, 2>>,
   v128_set_global |-> <<2, 0>>]

Slots ==
  [name \in DOMAIN Wide |-> <<Validated[name][1] + Wide[name][1], Validated[name][2] + Wide[name][2]>>]
    @@ Validated @@ WideForms

Plain == DOMAIN Slots

-----------------------------------------------------------------------------
(* The interpreter: <<operands popped, operands below them overwritten in  *)
(* place, operands pushed>>.                                               *)

visit_parametric ==
  [nop |-> <<0, 0, 0>>, drop |-> <<1, 0, 0>>, select |-> <<2, 1, 0>>, get_local |-> <<0, 0, 1>>,
   set_local |-> <<1, 0, 0>>, tee_local |-> <<1, 0, 1>>, get_global |-> <<0, 0, 1>>,
   set_global |-> <<1, 0, 0>>]

(* A load computes its address from one operand, a store takes its value   *)
(* and then its address.                                                   *)
compute_effective == 1

visit_load == [load |-> <<compute_effective, 0, 1>>]

visit_store == [store |-> <<1 + compute_effective, 0, 0>>]

visit_memory_size == [current_memory |-> <<0, 0, 1>>, grow_memory |-> <<0, 1, 0>>]

visit_const == [const |-> <<0, 0, 1>>]

visit_int_compare ==
  [i32_test |-> <<0, 1, 0>>, i32_compare |-> <<1, 1, 0>>,
   i64_test |-> <<0, 1, 0>>, i64_compare |-> <<1, 1, 0>>]

visit_float_compare == [f32_compare |-> <<1, 1, 0>>, f64_compare |-> <<1, 1, 0>>]

visit_i32 == [i32_unop |-> <<0, 1, 0>>, i32_binop |-> <<1, 1, 0>>]

visit_i64 == [i64_unop |-> <<0, 1, 0>>, i64_binop |-> <<1, 1, 0>>]

visit_f32 == [f32_unop |-> <<0, 1, 0>>, f32_binop |-> <<1, 1, 0>>]

visit_f64 == [f64_unop |-> <<0, 1, 0>>, f64_binop |-> <<1, 1, 0>>]

visit_trunc == [trunc |-> <<0, 1, 0>>]

visit_convert == [convert |-> <<0, 1, 0>>]

visit_sat_extend == [trunc_sat |-> <<0, 1, 0>>, extend |-> <<0, 1, 0>>]

visit_v128_memory ==
  [v128_load |-> <<compute_effective, 0, 1>>, v128_store |-> <<1 + compute_effective, 0, 0>>,
   load_lane |-> <<1 + compute_effective, 0, 1>>, store_lane |-> <<1 + compute_effective, 0, 0>>]

visit_lanes ==
  [v128_const |-> <<0, 0, 1>>, shuffle |-> <<2, 0, 1>>, extract_lane |-> <<1, 0, 1>>,
   replace_lane |-> <<1 + 1, 0, 1>>, swizzle |-> <<2, 0, 1>>, splat |-> <<1, 0, 1>>]

v128_unop == <<1, 0, 1>>

v128_binop == <<2, 0, 1>>

v128_ternop == <<3, 0, 1>>

visit_v128_compare == [v128_compare |-> v128_binop]

visit_v128_bitwise ==
  [v128_not |-> v128_unop, v128_bitwise |-> v128_binop, bitselect |-> v128_ternop,
   any_true |-> v128_unop]

(* A shift pops its count and is then a unary operation.                   *)
v128_shift == <<1 + v128_unop[1], 0, v128_unop[3]>>

visit_i8x16 ==
  [i8x16_unop |-> v128_unop, i8x16_test |-> v128_unop, i8x16_shift |-> v128_shift,
   i8x16_binop |-> v128_binop]

visit_i16x8 ==
  [i16x8_unop |-> v128_unop, i16x8_test |-> v128_unop, i16x8_shift |-> v128_shift,
   i16x8_binop |-> v128_binop]

visit_i32x4 ==
  [i32x4_unop |-> v128_unop, i32x4_test |-> v128_unop, i32x4_shift |-> v128_shift,
   i32x4_binop |-> v128_binop]

visit_i64x2 ==
  [i64x2_unop |-> v128_unop, i64x2_test |-> v128_unop, i64x2_shift |-> v128_shift,
   i64x2_binop |-> v128_binop]

visit_fxx ==
  [fxx_unop |-> v128_unop, fxx_binop |-> v128_binop, v128_convert |-> v128_unop]

visit_relaxed ==
  [relaxed_madd |-> v128_ternop, relaxed_dot |-> <<2, 0, 1>>, relaxed_dot_add |-> <<3, 0, 1>>]

visit_atomic ==
  [atomic_fence |-> <<0, 0, 0>>, atomic_notify |-> <<2, 0, 1>>, atomic_wait |-> <<3, 0, 1>>,
   atomic_load |-> <<compute_effective, 0, 1>>, atomic_store |-> <<1 + compute_effective, 0, 0>>]

visit_atomic_rmw == [atomic_rmw |-> <<1 + compute_effective, 0, 1>>]

visit_atomic_cmpxchg == [atomic_cmpxchg |-> <<2 + compute_effective, 0, 1>>]

(* memory.copy, memory.fill and table.copy move one element per dispatch,  *)
(* at the same pc, and pop their operands when none is left.               *)
visit_bulk ==
  [memory_init |-> <<3, 0, 0>>, data_drop |-> <<0, 0, 0>>, memory_copy |-> <<3, 0, 0>>,
   memory_fill |-> <<3, 0, 0>>, table_init |-> <<3, 0, 0>>, elem_drop |-> <<0, 0, 0>>,
   table_copy |-> <<3, 0, 0>>]

visit_table ==
  [table_get |-> <<0, 1, 0>>, table_set |-> <<2, 0, 0>>, ref_null |-> <<0, 0, 1>>,
   ref_is_null |-> <<1, 0, 1>>, ref_func |-> <<0, 0, 1>>, table_grow |-> <<2, 0, 1>>,
   table_size |-> <<0, 0, 1>>, table_fill |-> <<3, 0, 0>>]

Visited ==
  visit_parametric @@ visit_load @@ visit_store @@ visit_memory_size @@ visit_const
    @@ visit_int_compare @@ visit_float_compare @@ visit_i32 @@ visit_i64 @@ visit_f32
    @@ visit_f64 @@ visit_trunc @@ visit_convert @@ visit_sat_extend @@ visit_v128_memory
    @@ visit_lanes @@ visit_v128_compare @@ visit_v128_bitwise @@ visit_i8x16 @@ visit_i16x8
    @@ visit_i32x4 @@ visit_i64x2 @@ visit_fxx @@ visit_relaxed @@ visit_atomic
    @@ visit_atomic_rmw @@ visit_atomic_cmpxchg @@ visit_bulk @@ visit_table

(* The instructions that may trap: out-of-bounds accesses, division,       *)
(* conversions of values out of range.                                     *)
MayTrap ==
  {"load", "store", "i32_binop", "i64_binop", "trunc", "v128_load", "v128_store", "load_lane", "store_lane",
   "atomic_load", "atomic_store", "atomic_rmw", "atomic_cmpxchg", "memory_init", "memory_copy",
   "memory_fill", "table_init", "table_copy", "table_get", "table_set", "table_fill"}

=============================================================================
