------------------------------ MODULE MCCommands ------------------------------
(***************************************************************************)
(* An instance of Commands for TLC: methods of every kind a command is     *)
(* made for (MCCommands.cfg).                                              *)
(***************************************************************************)
EXTENDS Commands

Unary == [clientStreaming |-> FALSE, serverStreaming |-> FALSE, fields |-> {"name"},
          out |-> "Message", response |-> "none"]
MCMethods ==
  {Unary, [Unary EXCEPT !.out = "Empty", !.fields = {}],
   [Unary EXCEPT !.fields = {"page_size", "page_token"}],
   [Unary EXCEPT !.out = "Operation", !.response = "Message"],
   [Unary EXCEPT !.out = "Operation", !.response = "Empty"],
   [Unary EXCEPT !.serverStreaming = TRUE],
   [Unary EXCEPT !.clientStreaming = TRUE],
   [Unary EXCEPT !.clientStreaming = TRUE, !.serverStreaming = TRUE]}
===============================================================================
