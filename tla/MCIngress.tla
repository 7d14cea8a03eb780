----------------------------- MODULE MCIngress -----------------------------
(* The Ingresses a tenant writes, and the paths they name.                 *)
EXTENDS Ingress

CONSTANTS b1, b2, s1, root, api

Lengths == (root :> 1) @@ (api :> 4) @@ (NoPath :> 0)
Below   == (root :> {root, api}) @@ (api :> {api})

To(b, h, p, t) == [host |-> h, path |-> p, type |-> t, to |-> b]

(* Inside, with a certificate; outside on an address to be kept, with a    *)
(* whitelist and the root before a longer path; and of another class.      *)
Secure == [ours |-> TRUE, provider |-> "amphora", tls |-> <<s1>>, rules |-> <<>>,
           default |-> b2, expose |-> "internal", cidrs |-> "any", timeout |-> 0]
Paths  == [Secure EXCEPT !.tls = <<>>, !.expose = "keep", !.default = NoBackend,
                         !.cidrs = "some", !.timeout = 1,
                         !.rules = <<To(b2, AnyHost, root, "prefix"), To(b1, "h", api, "prefix")>>]

Manifests ==
    [secure |-> Secure, paths |-> Paths,
     foreign |-> [Secure EXCEPT !.ours = FALSE]]
=============================================================================
