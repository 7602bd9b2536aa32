------------------------------ MODULE MCAction ------------------------------
(***************************************************************************)
(* An instance of Action for TLC, and the evaluation of Naming over small  *)
(* inputs: the names that Action and Trace take for tuples of their parts. *)
(***************************************************************************)
EXTENDS Action, Args, Naming, SequencesExt

CONSTANTS load, use1, use2

(* let x = load()?; use(x)                                                  *)
MCCalls     == {load, use1, use2}
MCFunction  == load :> "load" @@ use1 :> "use" @@ use2 :> "use"
MCArguments == load :> {} @@ use1 :> {<<load, 1>>} @@ use2 :> {<<load, 2>>}

MCLaunch ==
    [argv |-> ContainerArgs("s3://in", "s3://out"),
     env  |-> "ACTION_NAME" :> "a0" @@ "RUN_NAME" :> "r1" @@ "_U_RUN_BASE" :> "s3://r1"
              @@ "_U_ORG_NAME" :> "org" @@ "FLYTE_INTERNAL_EXECUTION_PROJECT" :> "p"
              @@ "FLYTE_INTERNAL_EXECUTION_DOMAIN" :> "d",
     assignment |-> [action |-> "a0", run |-> "r1", project |-> "p", domain |-> "d",
                     inputs |-> "s3://in", output |-> "s3://out"]]

MCLaunches == {MCLaunch}
-----------------------------------------------------------------------------
(* Naming *)

(* Names are told apart by their parts -- Trace takes them for the tuples of *)
(* these -- if no version has a separator in it: NamingProofs has it for all *)
(* strings.                                                                 *)
Parts == {"f", "g"} \X {<<"v">>, <<"w">>} \X {<<>>, <<"h">>, <<"i">>} \X (1..3)
            \X {NoGroup, <<"a">>, <<"2">>, <<"a", "-", "2">>}

PartsName(p) == SubActionName(<<"parent">>, p[3], Identity(p[1], p[2]), p[4], p[5])
PartsKey(p)  == SequenceKey(TraceKey(Identity(p[1], p[2]), p[3]), p[5])

ASSUME NamesAreTheirParts ==
    \A p, q \in Parts :
        /\ PartsName(p) = PartsName(q) => p = q
        /\ PartsKey(p) = PartsKey(q) <=> [p EXCEPT ![4] = 0] = [q EXCEPT ![4] = 0]

(* Beyond that they are not: version "v-1" and number 2, or version "v",     *)
(* number 1 and group "2".                                                  *)
ASSUME NamesThatMeet ==
    PartsName(<<"f", <<"v", "-", "1">>, <<"h">>, 2, NoGroup>>)
        = PartsName(<<"f", <<"v">>, <<"h">>, 1, <<"2">> >>)

(* base36_encode gives the digits of its digest, none in front but of zero. *)
ASSUME DigitsAreTheNumber ==
    \A base \in 2..5, n \in 0..200 :
        LET d == Digits[base, n] IN
        /\ n = FoldLeft(LAMBDA sum, x : sum * base + x, 0, Reverse(d))
        /\ n > 0 => Last(d) # 0
=============================================================================
