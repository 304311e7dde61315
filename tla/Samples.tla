------------------------------ MODULE Samples ------------------------------
(* The driver programs the repository ships, src/examples/{hil,selfimprove,   *)
(* workflow}.rs, as flows of calls for Driver: one flow per section of a      *)
(* program, `for` and `while` unrolled a lap or two (after the last one the   *)
(* flow goes on), `continue` and `return` as the end of the flow. A call      *)
(* names its op, what it is on, the lap of `pos` it is made in, and the calls *)
(* made next when it turns out well and when it does not; a rubric is met     *)
(* when it scores what the program compares it with.                          *)
EXTENDS Naturals, Sequences

Do(op, on, at, yes, no) == [op |-> op, on |-> on, at |-> at, yes |-> yes, no |-> no]
Then(op, on, at, next) == Do(op, on, at, next, next)

------------------------------------------------------------------------------
(* hil.rs                                                                     *)

Decide ==
    <<Then("note", <<"info">>, 0, 2), Then("hil", <<>>, 0, 3), Then("note", <<"log">>, 0, 4),
      Then("step", <<"scaffold">>, 0, 5), Then("gate", <<>>, 0, 6)>>

\* the rejected value's rationale is a second ask of the judge
Provide ==
    <<Then("hil", <<>>, 0, 2), Do("judge", <<"dsn_ok">>, 0, 6, 3),
      Then("judge", <<"dsn_ok">>, 0, 4), Then("hil", <<>>, 0, 5),
      Do("judge", <<"dsn_ok">>, 0, 6, 7), Then("note", <<"log">>, 0, 7)>>

Secret ==
    <<Do("judge", <<"key_present">>, 0, 5, 2), Then("hil", <<>>, 0, 3),
      Do("judge", <<"key_present">>, 0, 5, 4), Then("hil", <<>>, 0, 5)>>

Act ==
    <<Do("judge", <<"dns_ok">>, 0, 6, 2), Then("hil", <<>>, 0, 3),
      Do("judge", <<"dns_ok">>, 0, 6, 4), Then("judge", <<"dns_ok">>, 0, 5),
      Then("hil", <<>>, 0, 6), Then("note", <<"info">>, 0, 7)>>

\* two attempts, a gate, and the human whose work the judge looks at
TakeOver ==
    <<Then("limits", <<>>, 0, 2), Then("step", <<"migrate">>, 0, 3),
      Do("judge", <<"migrated">>, 0, 8, 4), Then("note", <<"info">>, 0, 5),
      Then("limits", <<>>, 0, 6), Then("step", <<"migrate">>, 0, 7),
      Do("judge", <<"migrated">>, 0, 8, 8), Do("judge", <<"migrated">>, 0, 13, 9),
      Then("gate", <<>>, 0, 10), Do("judge", <<"migrated">>, 0, 12, 11),
      Then("hil", <<>>, 0, 12), Then("note", <<"info">>, 0, 13)>>

Implement ==
    <<Then("limits", <<>>, 1, 2), Then("step", <<"implement">>, 1, 3),
      Do("judge", <<"tests_pass">>, 1, 4, 6), Do("judge", <<"lint_clean">>, 1, 5, 6),
      Then("gate", <<>>, 1, 14),
      Do("judge", <<"progressing">>, 1, 8, 7), Then("note", <<"ask">>, 1, 8),
      Then("gate", <<>>, 1, 9),
      Then("limits", <<>>, 2, 10), Then("step", <<"implement">>, 2, 11),
      Do("judge", <<"tests_pass">>, 2, 12, 13), Then("judge", <<"lint_clean">>, 2, 13),
      Then("gate", <<>>, 2, 14)>>

Authorize ==
    <<Do("hil", <<>>, 0, 3, 2), Then("note", <<"info">>, 0, 5),
      Then("step", <<"deploy">>, 0, 4), Then("gate", <<>>, 0, 5)>>

Accept ==
    <<Do("judge", <<"tests_pass">>, 0, 2, 5), Do("judge", <<"smoke_ok">>, 0, 3, 5),
      Then("hil", <<>>, 0, 4), Then("note", <<"info">>, 0, 6), Then("note", <<"ask">>, 0, 6)>>

------------------------------------------------------------------------------
(* selfimprove.rs                                                             *)

Draft ==
    <<Then("limits", <<>>, 1, 2), Then("step", <<"select">>, 1, 3),
      Then("step", <<"design">>, 1, 4), Do("judge", <<"design_sound">>, 1, 8, 5),
      Then("note", <<"info">>, 1, 6), Then("step", <<"design">>, 1, 7),
      Then("judge", <<"design_sound">>, 1, 8), Do("judge", <<"design_sound">>, 1, 10, 9),
      Then("note", <<"info">>, 1, 10)>>

\* one lap of repairs, the two ladders of judges, and the gate
Build ==
    <<Then("step", <<"implement">>, 1, 2), Then("note", <<"log">>, 1, 3),
      Do("judge", <<"builds">>, 1, 5, 4), Then("note", <<"info">>, 1, 19),
      Then("step", <<"repair">>, 1, 6), Then("judge", <<"builds">>, 1, 7),
      Then("judge", <<"lint_clean">>, 1, 8), Then("judge", <<"tests_pass">>, 1, 9),
      Do("judge", <<"tests_pass">>, 1, 10, 11), Do("judge", <<"lint_clean">>, 1, 12, 11),
      Then("note", <<"ask">>, 1, 19),
      Do("judge", <<"no_shrink">>, 1, 13, 17),
      Do("judge", <<"builds">>, 1, 14, 16), Do("judge", <<"lint_clean">>, 1, 15, 16),
      Do("judge", <<"e2e">>, 1, 18, 16), Then("note", <<"info">>, 1, 19),
      Then("note", <<"ask">>, 1, 19), Then("gate", <<>>, 1, 19)>>

\* the second span: the tag waits for a human, and for the judges
Land ==
    <<Then("step", <<"author_judge">>, 1, 2), Then("block", <<>>, 1, 3),
      Then("step", <<"land">>, 1, 4), Do("judge", <<"builds">>, 1, 5, 6),
      Do("judge", <<"tests_pass">>, 1, 7, 6), Then("note", <<"info">>, 1, 7),
      Then("gate", <<>>, 1, 8), Then("note", <<"log">>, 1, 9)>>

------------------------------------------------------------------------------
(* workflow.rs                                                                *)

Discover ==
    <<Then("limits", <<>>, 1, 2), Then("step", <<"survey">>, 1, 3),
      Do("judge", <<"survey_good">>, 1, 5, 4), Then("note", <<"info">>, 1, 5),
      Do("judge", <<"survey_good">>, 1, 7, 6), Then("note", <<"ask">>, 1, 10),
      Then("step", <<"spec">>, 1, 8), Do("judge", <<"spec_sound">>, 1, 10, 9),
      Then("note", <<"info">>, 1, 10)>>

Grind ==
    <<Then("step", <<"implement">>, 1, 2), Then("note", <<"log">>, 1, 3),
      Do("judge", <<"builds">>, 1, 5, 4), Then("note", <<"info">>, 1, 12),
      Then("step", <<"fix">>, 1, 6), Do("judge", <<"tests_pass">>, 1, 7, 8),
      Then("judge", <<"lint_clean">>, 1, 8), Do("judge", <<"tests_pass">>, 1, 10, 9),
      Then("note", <<"ask">>, 1, 12), Do("gate", <<>>, 1, 12, 11),
      Then("note", <<"ask">>, 1, 12)>>

\* a costly judge behind a cheap one, and the second span
Ship ==
    <<Then("step", <<"harden">>, 1, 2), Do("judge", <<"tests_pass">>, 1, 3, 5),
      Do("judge", <<"load_ok">>, 1, 4, 5), Do("judge", <<"p99_ok">>, 1, 6, 5),
      Then("note", <<"ask">>, 1, 10), Then("block", <<>>, 1, 7),
      Then("step", <<"document">>, 1, 8), Then("gate", <<>>, 1, 9),
      Then("note", <<"log">>, 1, 10)>>

Sections == {Decide, Provide, Secret, Act, TakeOver, Implement, Authorize, Accept,
             Draft, Build, Land, Discover, Grind, Ship}

\* every judge a section asks
Asked == {f[i].on[1] : <<f, i>> \in {<<g, k>> \in Sections \X (1 .. 18) :
                                        k \in DOMAIN g /\ g[k].op = "judge"}}
==============================================================================
