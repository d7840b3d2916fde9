------------------------------- MODULE AiCore -------------------------------
(***************************************************************************)
(* The dispatch layer of ai_core.c, built with the neural core.  A query   *)
(* is the set of the strings that occur in it.                             *)
(* The two engines behind it, explicit_evaluate and neural_infer, are not  *)
(* in the repository: each may report any confidence.                      *)
(***************************************************************************)
EXTENDS Integers, Sequences

CONSTANT Confidences        \* percentages an engine may report

ASSUME ConfidenceAssumption == Confidences \subseteq 0 .. 100

VARIABLE response           \* ai_response_buf, and from what it was made

NoResponse == [by |-> "none", note |-> "none", class |-> "none", explicit |-> 0, neural |-> 0]

(* classify_query: the first class one of whose keywords occurs. *)
Keywords == <<[class |-> "simulation", words |-> {"simulate", "agent", "world", "constraint"}],
              [class |-> "security", words |-> {"net", "scan", "port", "packet"}],
              [class |-> "forensic", words |-> {"file", "disk", "forensic", "hash"}],
              [class |-> "language", words |-> {"explain", "what is", "how do", "tell me"}]>>

classify_query(query) ==
  LET hits == {i \in DOMAIN Keywords : Keywords[i].words \cap query # {}}
  IN IF hits = {} THEN "general" ELSE Keywords[CHOOSE i \in hits : \A j \in hits : i <= j].class

Factual == {"simulation", "security", "forensic"}

WeightsSwapped(class) == IF class \in Factual THEN [explicit |-> 25, neural |-> 75]     \* mutant
                         ELSE [explicit |-> 75, neural |-> 25]

Weights(class) == IF class \in Factual THEN [explicit |-> 75, neural |-> 25] ELSE [explicit |-> 25, neural |-> 75]

(* The fusion layer: scores are whole percents, and a tie is the rules'. *)
Fuse(class, ec, nc) ==
  LET w == Weights(class)
      rules == (ec * w.explicit) \div 100 >= (nc * w.neural) \div 100
  IN [by |-> IF rules THEN "explicit" ELSE "neural",
      note |-> CASE rules /\ nc > 60 /\ class = "language" -> "verified"
                 [] ~rules /\ ec = 0 -> "blocked"
                 [] OTHER -> "none",
      class |-> class, explicit |-> ec, neural |-> nc]

ai_query(query) == \E ec, nc \in Confidences : response' = Fuse(classify_query(query), ec, nc)

(* "Explicit Engine ... is ground truth for the OS state": on a factual    *)
(* query the neural answer is given only if it is more than twice as sure  *)
(* as the rules, and on the others the rules speak only if they are about  *)
(* twice as sure as it (the scores are rounded down).  This holds of the   *)
(* weights in the code and of those in the file's header.                  *)
GroundTruth ==
  /\ response.by = "neural" /\ response.class \in Factual => response.neural > 2 * response.explicit
  /\ response.by = "explicit" /\ response.class \notin Factual => response.explicit + 4 > 2 * response.neural
=============================================================================
