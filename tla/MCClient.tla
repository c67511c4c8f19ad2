------------------------------ MODULE MCClient ------------------------------
(***************************************************************************)
(* Uses of the HTTP and gRPC clients for model checking.                   *)
(***************************************************************************)
EXTENDS Client

Kinds == {"background", "cancelable"}

\* Every pair of contexts, without a body; bodies of both kinds, with a context that
\* ends; gRPC calls.
Contexts == [transport : {"http"}, body : {"none"}, request : Kinds, execution : Kinds,
             hedged : BOOLEAN, attempts : {2}]
HedgedBodies == [transport : {"http"}, body : {"copy", "seeker"}, request : {"background"},
                 execution : {"background"}, hedged : {TRUE}, attempts : {2}]
RetriedBodies == [transport : {"http"}, body : {"copy", "seeker"}, request : Kinds,
                  execution : {"background"}, hedged : {FALSE}, attempts : {3}]
RetriedCalls == [transport : {"grpc"}, body : {"none"}, request : {"cancelable"}, execution : Kinds,
                 hedged : {FALSE}, attempts : {3}]
HedgedCalls == [transport : {"grpc"}, body : {"none"}, request : {"cancelable"},
                execution : {"background"}, hedged : {TRUE}, attempts : {3}]
AllConfigs == Contexts \cup HedgedBodies \cup RetriedBodies \cup RetriedCalls \cup HedgedCalls
=============================================================================
