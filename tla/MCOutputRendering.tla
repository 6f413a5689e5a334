-------------------------- MODULE MCOutputRendering --------------------------
(***************************************************************************)
(* Logs of a kernel that prints, displays, updates and clears.             *)
(***************************************************************************)
EXTENDS OutputRendering

Text(mime, size) == [mime |-> mime, size |-> size, raw |-> FALSE]
Raw(mime, size) == [mime |-> mime, size |-> size, raw |-> TRUE]
Stream(name, size) ==
  [type |-> "stream", name |-> name, id |-> 0, wait |-> FALSE, body |-> <<Text("none", size)>>]
Display(type, id, body) ==
  [type |-> type, name |-> "none", id |-> id, wait |-> FALSE, body |-> body]
Clear(wait) ==
  [type |-> "clear", name |-> "none", id |-> 0, wait |-> wait, body |-> <<>>]

MCJson == {"json"}
MCBinary == {"png"}
MCMessages ==
  {Stream("stdout", 1), Stream("stdout", 2), Stream("stderr", 1), Clear(TRUE), Clear(FALSE),
   Display("error", 0, <<Text("none", 2)>>),
   Display("display", 0, <<Text("plain", 1), Text("png", 1)>>),
   Display("display", 0, <<Text("plain", 2)>>), Display("display", 0, <<Raw("png", 1)>>),
   Display("display", 0, <<Text("json", 2)>>), Display("display", 0, <<Raw("json", 1)>>),
   Display("display", 1, <<Text("plain", 1)>>), Display("update", 1, <<Text("html", 3)>>),
   Display("update", 1, <<Text("json", 3)>>), Display("result", 0, <<>>)}
==============================================================================
