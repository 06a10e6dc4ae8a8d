------------------------------ MODULE MCWasm ------------------------------
(***************************************************************************)
(* Kinds of functions, by what their bodies are made of, over four tags:   *)
(* without a value, with one, with two, and with a v128, which no clause   *)
(* of a native function catches by its tag.                                *)
(***************************************************************************)
EXTENDS WasmNative

MCTagParams == [empty |-> 0, one |-> 1, two |-> 2, vector |-> 1]

MCTagSlots == [empty |-> 0, one |-> 1, two |-> 2, vector |-> 2]

ScalarTags == {"empty", "one"}

AllTypes == {<<0, 0>>, <<0, 1>>, <<1, 1>>}

Clause(kind, tag, label) == [kind |-> kind, tag |-> tag, label |-> label]

AllClauses ==
  {<<>>, <<Clause("catch", "one", 0)>>, <<Clause("catch", "empty", 0), Clause("catch_all", "", 1)>>}

Interpreted == [native |-> FALSE, params |-> 1, locals |-> 0, results |-> 1, free |-> {"const", "drop"},
                lead |-> {"const"}]

(* Every instruction without control flow, after constants.                *)
PlainBodies ==
  Interpreted @@ [ops |-> DOMAIN Validated, types |-> {}, tags |-> {}, clauses |-> {},
   nested |-> 0, code |-> 5, dead |-> 0]

(* Structured control flow and calls, with dead code and without.          *)
Structured ==
  Interpreted @@ [ops |-> {"const", "drop", "unreachable", "block", "loop", "if", "else", "br", "br_if", "br_table",
            "return", "call", "call_indirect", "return_call", "return_call_indirect"},
   types |-> AllTypes, tags |-> ScalarTags, clauses |-> {}, nested |-> 2, code |-> 3, dead |-> 2]

Longer ==
  Interpreted @@ [ops |-> {"const", "block", "loop", "if", "else", "br", "br_if", "br_table", "call"},
   types |-> AllTypes, tags |-> ScalarTags, clauses |-> {}, nested |-> 2, code |-> 4, dead |-> 0]

(* Nested try_tables and every way out of them.                            *)
Exceptions ==
  Interpreted @@ [ops |-> {"const", "br", "br_if", "br_table", "call", "return_call", "try_table", "throw"},
   types |-> {<<0, 0>>, <<0, 1>>}, tags |-> ScalarTags, clauses |-> AllClauses, nested |-> 2, code |-> 4, dead |-> 0]

(* An exception caught by reference and thrown again.                      *)
References ==
  Interpreted @@ [ops |-> {"block", "try_table", "throw", "throw_ref"}, types |-> {<<0, 0>>, <<0, 1>>},
   tags |-> ScalarTags, clauses |-> {<<Clause("catch_all_ref", "", 0)>>}, nested |-> 3, code |-> 5, dead |-> 0]

(* A recursion that throws through activations.                            *)
Recursion ==
  Interpreted @@ [ops |-> {"const", "if", "call", "try_table", "throw"}, types |-> AllTypes, tags |-> ScalarTags,
   clauses |-> {<<Clause("catch_all", "", 0)>>, <<Clause("catch_all_ref", "", 0)>>,
                <<Clause("catch", "one", 0)>>}, nested |-> 1, code |-> 6, dead |-> 0]

(* The legacy handlers.                                                    *)
Legacy ==
  Interpreted @@ [ops |-> {"const", "block", "br", "throw", "try", "catch", "rethrow", "delegate"},
   types |-> AllTypes, tags |-> ScalarTags, clauses |-> {}, nested |-> 2, code |-> 3, dead |-> 1]

(* Payloads of several values, and of a v128.                              *)
Payloads ==
  Interpreted @@ [ops |-> {"const", "drop", "block", "try_table", "throw"}, types |-> {<<0, 1>>, <<0, 2>>},
   tags |-> {"two", "vector"}, clauses |-> {<<Clause("catch", "two", 0)>>, <<Clause("catch_ref", "vector", 0)>>},
   nested |-> 2, code |-> 5, dead |-> 0]

-----------------------------------------------------------------------------
(* Functions for the native backend: what may be in front of an            *)
(* instruction without control flow is what can be folded into it, and an  *)
(* unreachable behind it.                                                  *)
Native(params, locals, results) == [native |-> TRUE, params |-> params, locals |-> locals, results |-> results]

NativePlain ==
  Native(1, 0, 1) @@
  [ops |-> (DOMAIN Validated \ DOMAIN Wide) \cup {"unreachable"}, free |-> {}, lead |-> {"const", "get_local"},
   types |-> {}, tags |-> {}, clauses |-> {}, nested |-> 0, code |-> 5, dead |-> 0]

NativeVectors ==
  Native(0, 1, 2) @@
  [ops |-> DOMAIN Wide \cup DOMAIN WideForms \cup {"const", "unreachable"}, free |-> {},
   lead |-> {"const", "v128_const"}, types |-> {}, tags |-> {}, clauses |-> {}, nested |-> 0, code |-> 5, dead |-> 0]

(* Conditions, computed or folded, and what uses them.                     *)
NativeConditions ==
  Native(1, 1, 1) @@
  [ops |-> {"const", "i32_test", "drop", "unreachable", "loop", "if", "else", "br", "br_if", "br_table", "call"},
   free |-> {"const", "i32_test", "drop"}, lead |-> {}, types |-> AllTypes, tags |-> ScalarTags, clauses |-> {},
   nested |-> 1, code |-> 4, dead |-> 1]

(* Branches that unwind the stack.                                         *)
NativeBranches ==
  Native(1, 1, 1) @@
  [ops |-> {"get_local", "drop", "block", "loop", "br_if", "br_table"},
   free |-> {"get_local", "drop"}, lead |-> {}, types |-> {<<0, 0>>, <<0, 1>>}, tags |-> ScalarTags, clauses |-> {},
   nested |-> 1, code |-> 4, dead |-> 0]

(* Calls and epilogues of each arity, with locals and without.             *)
NativeCalls ==
  {Native(0, locals, results) @@
     [ops |-> {"const", "br_if", "return", "call", "call_indirect", "return_call",
               "return_call_indirect"},
      free |-> {"const"}, lead |-> {}, types |-> {<<0, results>>}, tags |-> ScalarTags, clauses |-> {},
      nested |-> 1, code |-> 3, dead |-> 0] : locals \in 0 .. 1, results \in 0 .. 2}

(* try_tables, and every way out of them.                                  *)
NativeExceptions ==
  Native(0, 1, 0) @@
  [ops |-> {"get_local", "drop", "br", "br_if", "call", "return_call", "try_table", "throw"},
   free |-> {"get_local", "drop"}, lead |-> {}, types |-> {<<0, 0>>, <<0, 1>>}, tags |-> ScalarTags,
   clauses |-> AllClauses, nested |-> 2, code |-> 4, dead |-> 0]

(* A recursion, which an indirect call may end, that throws through        *)
(* activations.                                                            *)
NativeRecursion ==
  Native(0, 1, 0) @@
  [ops |-> {"get_local", "call_indirect", "try_table", "throw"}, free |-> {"get_local"}, lead |-> {},
   types |-> {<<0, 0>>}, tags |-> ScalarTags, clauses |-> {<<Clause("catch_all", "", 0)>>}, nested |-> 1, code |-> 5, dead |-> 0]

NativeReferences ==
  Native(0, 0, 1) @@
  [ops |-> {"block", "try_table", "throw", "throw_ref"}, free |-> {}, lead |-> {}, types |-> {<<0, 1>>},
   tags |-> ScalarTags, clauses |-> {<<Clause("catch_all_ref", "", 0)>>}, nested |-> 3, code |-> 5, dead |-> 0]

NativePayloads ==
  Native(0, 1, 2) @@
  [ops |-> {"get_local", "v128_get_local", "block", "try_table", "throw"},
   free |-> {"get_local", "v128_get_local"}, lead |-> {}, types |-> {<<0, 0>>, <<0, 2>>},
   tags |-> {"two", "vector"}, clauses |-> {<<Clause("catch", "two", 0)>>, <<Clause("catch_all", "", 0)>>},
   nested |-> 2, code |-> 4, dead |-> 0]

NativeLegacy ==
  Native(0, 0, 0) @@
  [ops |-> {"get_local", "block", "br", "throw", "try", "catch", "rethrow", "delegate"}, free |-> {"get_local"},
   lead |-> {}, types |-> {<<0, 0>>, <<0, 1>>}, tags |-> ScalarTags, clauses |-> {}, nested |-> 1, code |-> 3, dead |-> 1]

MCProfiles ==
  {PlainBodies, Structured, Longer, Exceptions, References, Recursion, Legacy, Payloads, NativePlain,
   NativeVectors, NativeConditions, NativeBranches, NativeExceptions, NativeRecursion, NativeReferences,
   NativePayloads, NativeLegacy}
    \cup NativeCalls

=============================================================================
