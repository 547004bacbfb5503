-------------------------- MODULE MCRangePipeline --------------------------
(* Two categories, each with an empty list or a list of one or two CIDRs,  *)
(* one of which is malformed.                                              *)
EXTENDS RangePipeline, TLC

CONSTANTS x, y, bad

TwoCategories == <<"web", "api">>

AllLabels == {"web", "api", "istio"}

Lists == {<<>>, <<x>>, <<bad, y>>}

AllResponses == [{"web", "api"} -> Lists]

Filters == [include : SUBSET {"web", "api"}, exclude : SUBSET {"web", "api"}]

OneReference == {<<f>> : f \in Filters}

(* The second provider of two is not filtered.                             *)
NoFilter == [include |-> {}, exclude |-> {}]

UpToTwoReferences == OneReference \cup {<<f, NoFilter>> : f \in Filters}

OwnRanges ==
  {<<>>} \cup {AddAll(<<>>, <<c>>, {"istio"}) : c \in {x, y}}
         \cup {AddAll(<<>>, <<x, y>>, {"istio"})}

=============================================================================
