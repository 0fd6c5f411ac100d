SPECIFICATION Spec
PROPERTY ItemsSpawn
