----------------------------- MODULE MCLambdas ------------------------------
(* Programs of up to four calls with up to four lambdas.                    *)
EXTENDS Lambdas

CONSTANTS c1, c2, c3, c4, l1, l2, l3, l4, main, apply, both, plain, printf, param

arg(first, inside) == [first |-> first, inside |-> inside]

Main == [name |-> main, types |-> <<>>, block |-> main]
Others == <<[name |-> apply, types |-> <<1>>, block |-> apply],
            [name |-> both, types |-> <<1, 2>>, block |-> both],
            [name |-> plain, types |-> <<NULL>>, block |-> plain]>>

(* A lambda in an argument of a call in a lambda, and so on.                *)
Nested ==
  [block |-> main :> <<c1>> @@ l1 :> <<c2>> @@ l2 :> <<c3>> @@ l3 :> <<c4>> @@ l4 :> <<>>,
   args |-> c1 :> <<arg(l1, <<>>)>> @@ c2 :> <<arg(l2, <<>>)>> @@ c3 :> <<arg(l3, <<>>)>>
            @@ c4 :> <<arg(l4, <<>>)>>]

(* Two in one call, one in a call that is an argument beside them.          *)
Beside ==
  [block |-> main :> <<c1, c3>> @@ l1 :> <<>> @@ l2 :> <<c4>> @@ l3 :> <<>> @@ l4 :> <<>>,
   args |-> c1 :> <<arg(l1, <<>>), arg(l2, <<c2>>)>> @@ c2 :> <<arg(l3, <<>>)>>
            @@ c3 :> <<arg(NULL, <<>>)>> @@ c4 :> <<arg(l4, <<>>)>>]

(* A lambda that is no argument of a call, with one that is inside.         *)
Loose ==
  [block |-> main :> <<c1>> @@ l1 :> <<l2>> @@ l2 :> <<c2>> @@ l3 :> <<>> @@ l4 :> <<c3>>,
   args |-> c1 :> <<arg(l1, <<>>), arg(NULL, <<l4>>)>> @@ c2 :> <<arg(l3, <<>>)>>
            @@ c3 :> <<>>]

(* Two methods with lambdas, in one namespace or in two.                    *)
Apart ==
  [block |-> main :> <<c1>> @@ both :> <<c3>> @@ l1 :> <<c2>> @@ l2 :> <<>> @@ l3 :> <<>>
             @@ l4 :> <<>>,
   args |-> c1 :> <<arg(l1, <<>>)>> @@ c2 :> <<arg(l2, <<>>)>> @@ c3 :> <<arg(l3, <<>>)>>]

Namespaces ==
  {<<<<Main>> \o Others>>, <<<<Main>>, Others>>, <<Others, <<Main>>>>,
   <<<<Main>>, Others \o <<[name |-> lambda_(1), types |-> <<>>, block |-> plain]>>>>,
   <<<<Main, Main>>, Others>>}

(* The same everywhere, or another in one place.                            *)
Few(S, T, all, other) ==
  {[x \in S |-> all]} \cup {[[x \in S |-> all] EXCEPT ![y] = other] : y \in T}

MCPrograms ==
  UNION {
    {[namespaces |-> spaces,
      block |-> shape.block @@ [b \in {main, apply, both, plain} |-> <<>>],
      callee |-> callee, args |-> shape.args, skipped |-> skipped, count_params |-> counts] :
        spaces \in Namespaces,
        callee \in UNION {Few(DOMAIN shape.args, DOMAIN shape.args, apply, f) :
                            f \in {both, plain, printf, param}},
        skipped \in {{}} \cup {{c} : c \in DOMAIN shape.args} \cup {{l2}},
        counts \in Few(Lambda, {l1, l4}, 2, 1)} : shape \in {Nested, Beside, Loose, Apart}}

=============================================================================
