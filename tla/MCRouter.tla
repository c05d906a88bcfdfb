------------------------------ MODULE MCRouter ------------------------------
(***************************************************************************)
(* Two providers that can fail, the reliable mock and an unknown name; two *)
(* requests share the circuits.                                            *)
(***************************************************************************)
EXTENDS Router

MCProviders == {"openai", "google", "mock", "typo"}
MCKnown == {"openai", "google", "mock"}
MCConfigured == {"openai", "mock"}
MCReliable == {"mock"}
MCUntimed == {"openai"}
MCCanonicals == {"openai:a", "openai:b", "google:c", "mock:d", "typo:e"}
MCProviderOf ==
  [c \in MCCanonicals |->
    CASE c \in {"openai:a", "openai:b"} -> "openai"
      [] c = "google:c" -> "google"
      [] c = "mock:d" -> "mock"
      [] c = "typo:e" -> "typo"]

\* Two targets of one provider; and a fallback that ends on a reliable target,
\* after an unknown provider and one that is not configured.
MCLists ==
  {<<"openai:a", "openai:b">>, <<"typo:e", "google:c", "mock:d">>}
=============================================================================
