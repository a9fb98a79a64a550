-------------------------- MODULE MCAsyncCaptions --------------------------
(* Values for the run of AsyncCaptions. *)
EXTENDS AsyncCaptions

CONSTANTS a1, a2, a3

ThreeCalls == {a1, a2, a3}

Call(provider, endpoint, limit, image) ==
  [provider |-> provider, endpoint |-> endpoint, limit |-> limit, image |-> image]

Lowered == [s \in {"Ollama ", "Gemini"} |-> IF s = "Ollama " THEN "ollama" ELSE "gemini"]

(* Two spellings of one service, and an alias left to its default. *)
Contending ==
  {Call("Ollama ", "", 1, TRUE), Call("", Local, 1, FALSE), Call("Gemini", Local, 2, FALSE)}

(* Every provider the tables name, one they do not, and a server of one's own. *)
Mixed(x, y, z) == [c \in ThreeCalls |-> CASE c = a1 -> x [] c = a2 -> y [] c = a3 -> z]

Tables ==
  { Mixed(Call("openai", "", 1, FALSE), Call("vllm", Local, 1, FALSE), Call("llama.cpp", "", 1, FALSE)),
    Mixed(Call("anthropic", Local, 1, FALSE), Call("google", "", 1, FALSE), Call("mistral", Local, 1, FALSE)),
    Mixed(Call("vllm", "http://vllm:8000/v1", 1, FALSE), Call("mistral", "", 1, FALSE),
          Call("Gemini", "", 1, FALSE)) }

SomeMixes == [ThreeCalls -> Contending] \cup Tables
SomeArgs == UNION {{m[c] : c \in ThreeCalls} : m \in SomeMixes}
============================================================================
