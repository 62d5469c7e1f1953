\* A deployment whose worker may be killed between the statements of its end.
SPECIFICATION Spec
INVARIANT SecretsDestroyed
