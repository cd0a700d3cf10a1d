----------------------------- MODULE MCLuaAsync -----------------------------
(* Instances of LuaAsync for TLC: thread ids are model values.             *)
EXTENDS LuaAsync
=============================================================================
