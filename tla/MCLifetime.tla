----------------------------- MODULE MCLifetime -----------------------------
(* Two closers race three OnClose calls; the third callback may panic. *)
EXTENDS Lifetime, TLC

CONSTANTS c1, c2, h1, h2, h3

MCClosers == {c1, c2}
MCHooks == {h1, h2, h3}
MCPanicky == {h3}
MCResults == {"ok", "error", "panic"}

=============================================================================
