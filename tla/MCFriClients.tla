---------------------------- MODULE MCFriClients ----------------------------
(***************************************************************************)
(* FriClients over the field of five elements, whose two-adic subgroups    *)
(* have two and four: 4 = -1 and 2 = i.                                    *)
(***************************************************************************)
EXTENDS FriClients

Dom(n) == IF n = 1 THEN <<1>> ELSE TwoAdicDomain(n)

FriJob(evals, queries, lies) ==
  [evals |-> evals, domain |-> Dom(Len(evals)), queries |-> queries, faulty |-> lies]

MCFriJobs ==
  {FriJob(<<2>>, 1, FALSE), FriJob(<<1, 3>>, 2, FALSE), FriJob(<<1, 3>>, 2, TRUE),
   FriJob(<<4, 0, 1, 2>>, 2, FALSE), FriJob(<<3, 1, 1, 2>>, 1, TRUE)}

Query(point, column) == [point |-> point, column |-> column, value |-> point]

Request(trace, queries, max_degree, fri_queries) ==
  [trace |-> trace, queries |-> queries, links |-> <<>>, max_degree |-> max_degree,
   num_columns |-> 2, nqueries |-> fri_queries]

Wide == <<<<1, 3>>, <<0, 2>>, <<1, 4>>, <<1, 0>>>>

\* Good ones, a query in the domain, no query, columns out of bounds, a
\* degree over the limit, heights without a transform, and columns of every
\* kind for the transforms.
MCDeepRequests ==
  {Request(Wide, <<Query(3, 1)>>, 4, 1),
   Request(Wide, <<Query(0, 0), Query(0, 1)>>, 4, 1),
   Request(Wide, <<>>, 4, 1),
   Request(Wide, <<Query(0, 0), Query(0, 2)>>, 4, 1),
   Request(Wide, <<Query(0, 2)>>, 4, 1),
   Request(Wide, <<Query(0, 0)>>, 2, 1),
   Request(<<<<1, 3>>, <<0, 2>>>>, <<Query(0, 0), Query(3, 1)>>, 2, 2),
   Request(<<<<1, 3>>>>, <<Query(0, 0)>>, 2, 1),
   Request(SubSeq(Wide, 1, 3), <<Query(0, 0), Query(0, 2)>>, 4, 1)}
  \cup {Request([r \in 1 .. 4 |-> <<t[r], 1>>], <<>>, 4, 1) : t \in [1 .. 4 -> 0 .. 2]}

Link(columns, shifts, deep_point, numerator, denominator) ==
  [columns |-> columns, shifts |-> shifts, deep_point |-> deep_point,
   numerator |-> numerator, denominator |-> denominator]

Batch(queries, links) ==
  [trace |-> Wide, queries |-> queries, links |-> links, max_degree |-> 4,
   num_columns |-> 2, nqueries |-> 1]

\* Every rule between two cells at most three rows apart, and what a batch
\* may get wrong.
MCBatchRequests ==
  {Batch(<<Query(0, 0)>>, <<Link(<<0, c>>, <<s, k>>, z, <<>>, 1)>>) :
     c \in 0 .. 1, s \in 0 .. 1, k \in 0 .. 3, z \in 0 .. 4}
  \cup {Batch(<<Query(0, 0), Query(3, 1)>>, <<Link(<<1>>, <<0>>, 3, <<>>, 2), l>>) :
          l \in {Link(<<2>>, <<0>>, 0, <<>>, 1), Link(<<0>>, <<1>>, 0, <<>>, 0),
                 Link(<<0>>, <<1>>, 0, <<>>, 1), Link(<<0>>, <<2>>, 0, <<>>, 3),
                 Link(<<0>>, <<0>>, 2, <<3, 1>>, 1), Link(<<0>>, <<0>>, 1, <<3, 1>>, 1)}}
  \cup {Batch(<<>>, <<>>), Batch(<<Query(0, 0), Query(1, 2)>>, <<>>)}

Job(evals, dom, queries, repositories) ==
  [evals |-> evals, domain |-> dom, queries |-> queries, repositories |-> repositories]

Detached == {[head |-> 1, loose |-> 0, packed |-> 0]}

\* One job beside every repository; one whose halves are equal subtrees.
MCJobs ==
  {Job(<<1, 3>>, Dom(2), 0, Repositories), Job(<<2>>, Dom(1), 1, Detached),
   Job(<<1, 3>>, Dom(2), 1, Detached), Job(<<2, 2, 2, 2>>, Dom(4), 1, Detached),
   Job(<<>>, <<>>, 1, Detached), Job(<<1, 2, 3>>, <<1, 2, 4>>, 1, Detached),
   Job(<<1, 2>>, <<1>>, 1, Detached)}

\* What is proved of folds assumes it of the callers.
ASSUME MCCallersGiveRoots == CallersGiveRoots
=============================================================================
