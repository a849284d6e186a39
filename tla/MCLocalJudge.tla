---------------------------- MODULE MCLocalJudge ----------------------------
(***************************************************************************)
(* Configuration with the file of Example 2 in docs/MODEL_CONFIG.md: one   *)
(* local provider, which has no api_key_env, serves the coder and the      *)
(* judge.                                                                  *)
(***************************************************************************)
EXTENDS Configuration, TLC

LocalChain == <<"l0-coder", "principal">>
LocalFallback == "l0-coder" :> "log_only" @@ "principal" :> "log_only"
Entry(p, r) == [form |-> "mapping", provider |-> p, roles |-> r]
Example2 ==
  [yaml |-> "fine", providers |-> {"llama_cpp_local"}, keyed |-> {},
   models |-> "judge" :> Entry("llama_cpp_local", <<"judge">>)
                @@ "l0-planner" :> Entry("llama_cpp_local", <<"planner">>)
                @@ "orchestrator" :> Entry("llama_cpp_local", <<"orchestrator">>)
                @@ "l0-coder" :> Entry("llama_cpp_local", <<"coder">>)
                @@ "principal" :> Entry("", <<"principal">>),
   workflow |-> {"l0-coder", "l0-planner", "principal"},
   actions |-> <<>>,
   coders |-> "l0-coder" :> "opencode",
   mappings |-> TRUE, verify |-> FALSE]
LocalContents == {Example2}
=============================================================================
