------------------------------- MODULE Tenancy -------------------------------
(* The tenants and the users that limits are counted for (model Tenant, model User *)
(* of schema.prisma).                                                              *)
CONSTANTS Tenants, Users
=============================================================================
